---- MODULE Spec2Model ----
(***************************************************************************)
(* A model of the transactional manifest construction engine of            *)
(* rust/lance/src/dataset/transaction.rs: Transaction::build_manifest and  *)
(* its helpers, and the conflict matrix of the module documentation; and   *)
(* of the schema engine of rust/lance-core/src/datatypes/schema.rs:        *)
(* Schema and Projection.                                                  *)
(*                                                                         *)
(* Spec:           operations applied one after the other by               *)
(*                 build_manifest to a dataset that starts out             *)
(*                 non-existent.                                           *)
(* SpecConflict:   the conflict decision on a pending operation against a  *)
(*                 committed one, for pairs of operations drawn by Init.   *)
(* SpecConcurrent: two Appends prepared on the same read_version and       *)
(*                 committed one after the other, in either order.         *)
(* SpecColumns:    operations on the columns of a dataset (Merge, Project, *)
(*                 DataReplacement, Update of fields) and on its indices,  *)
(*                 with fragments of several data files.                   *)
(* SpecRequest:    one call of build_manifest, with any operation and any  *)
(*                 configuration, on datasets drawn by Init.               *)
(* SpecSchema:     one call of a function of Schema (set_field_id,         *)
(*                 project, merge, compare_with_options) on schemas drawn  *)
(*                 by Init.                                                *)
(* SpecEvolution:  a schema that evolves by columns dropped and columns    *)
(*                 added.                                                  *)
(* SpecProjection: a Projection built up by its operations.                *)
(* SpecImport:     Schema::try_from on an Arrow schema drawn by Init.      *)
(* SpecValidate:   validate_operation on an operation and a manifest.      *)
(* SpecTransactionFile: a transaction written to its protobuf message      *)
(*                 and read back.                                          *)
(* SpecEquality:   two operations compared by PartialEq, in both orders.   *)
(* SpecCompatible: check_compatible on two schemas drawn by Init.          *)
(*                                                                         *)
(* Option<T> is modelled as a sequence: <<>> is None, <<v>> is Some(v).    *)
(***************************************************************************)
EXTENDS Integers, Sequences, FiniteSets, TLC

(* ---------------------------------------------------------------- bounds *)

\* The number of manifests (versions) a behaviour commits.
MaxVersion == 3
\* The number of fragments one operation may bring.
MaxNewFragments == 2
\* The largest physical_rows of a written fragment.
MaxRows == 2

(* --------------------------------------------------------------- helpers *)

None == <<>>
Some(x) == <<x>>

Range(s) == {s[i] : i \in DOMAIN s}

SetMax(S) == CHOOSE x \in S : \A y \in S : y <= x

\* The ids of a list of fragments.
IdSet(fragments) == {fragments[i].id : i \in DOMAIN fragments}

\* Insertion of x into a sequence sorted by id, after every element with an
\* id <= x.id (a stable sort, like Vec::sort_by_key).
RECURSIVE InsertById(_, _)
InsertById(x, s) ==
    IF s = <<>> THEN <<x>>
    ELSE IF Head(s).id <= x.id THEN <<Head(s)>> \o InsertById(x, Tail(s))
    ELSE <<x>> \o s

\* sort_by_key_id leaving the list in the order the operation built it.
sort_by_key_id_skipped(s) == s

\* final_fragments.sort_by_key(|frag| frag.id).
RECURSIVE sort_by_key_id(_)
sort_by_key_id(s) ==
    IF s = <<>> THEN <<>>
    ELSE InsertById(s[Len(s)], sort_by_key_id(SubSeq(s, 1, Len(s) - 1)))

(* ------------------------------------------------------------- variables *)

VARIABLES
    manifest,       \* Option<Manifest>: the current manifest of the dataset
    indices,        \* Vec<Index>: the current index list
    last,           \* the build_manifest call in flight: its inputs, its result
    hist,           \* history: ids and row-id ranges handed out so far
    pending,        \* the transactions prepared and not yet committed
    committed,      \* the transactions committed since they were prepared
    cur_schema,     \* Schema: the schema the schema engine works on
    high_water,     \* the largest field id the dataset ever assigned
    cur_projection, \* Projection: the projection under construction
    schema_call     \* the last call of the schema engine: inputs and result

transaction_vars == <<manifest, indices, last, hist, pending, committed>>

schema_vars == <<cur_schema, high_water, cur_projection, schema_call>>

vars == <<manifest, indices, last, hist, pending, committed,
          cur_schema, high_water, cur_projection, schema_call>>

\* The schema engine before any call, with no schema.
NoSchemaCall == [fn |-> "None"]

SchemaEngineIdle ==
    /\ cur_schema = [fields |-> <<>>, metadata |-> <<>>]
    /\ high_water = -1
    /\ cur_projection = None
    /\ schema_call = NoSchemaCall

(* ------------------------------------------------------------ data model *)

\* DataFile (lance_table::format::DataFile): the path, the ids of the fields
\* the file stores, in the order of its columns, the file format version and
\* the size (Option).  A data file is named by its path <<v, i>>: the i-th
\* file written for the transaction that builds version v (the writers name
\* files by fresh uuids).
DataFile(path, fields, major, minor, size) ==
    [path |-> path, fields |-> fields, file_major_version |-> major,
     file_minor_version |-> minor, file_size_bytes |-> size]

\* Fragment (lance_table::format::Fragment): id, the data files, the physical
\* row count (Option) and the inline row-id sequence (Option: the range
\* <<lo, hi>> stands for the row ids lo .. hi-1).  The fragment of a writer
\* holds one data file with both fields of the schema.
Fragment(id, path, physical_rows) ==
    [id |-> id, files |-> <<DataFile(path, <<0, 1>>, 2, 0, Some(1))>>,
     deletion_file |-> None,
     physical_rows |-> physical_rows, row_id_meta |-> None]

\* Fragment::new(id), as the tests build the old fragments of a rewrite group
\* that the dataset does not hold.
FragmentNew(id) ==
    [id |-> id, files |-> <<>>, deletion_file |-> None,
     physical_rows |-> None, row_id_meta |-> None]

(* -------------------------------------------- Manifest (lance_table crate) *)

\* Manifest::max_fragment_id(): the recorded maximum, else the largest id of
\* the fragment list, else None.
max_fragment_id(m) ==
    IF m.max_fragment_id # None THEN m.max_fragment_id
    ELSE IF m.fragments = <<>> THEN None
    ELSE Some(SetMax(IdSet(m.fragments)))

\* Manifest::uses_move_stable_row_ids(): FLAG_MOVE_STABLE_ROW_IDS is set.
uses_move_stable_row_ids(m) == m.stable_row_ids

\* Manifest::new: the first manifest of a dataset.
ManifestNew(schema, fragments, data_storage_format) ==
    [version |-> 1, schema |-> schema, fragments |-> fragments,
     max_fragment_id |-> None,
     next_row_id |-> 0, stable_row_ids |-> FALSE,
     data_storage_format |-> data_storage_format]

\* Manifest::new_from_previous: version bumped, schema and fragment list
\* replaced, max_fragment_id, next_row_id, the feature flags and the data
\* storage format carried over.
new_from_previous(previous, schema, fragments) ==
    [version |-> previous.version + 1, schema |-> schema,
     fragments |-> fragments,
     max_fragment_id |-> previous.max_fragment_id,
     next_row_id |-> previous.next_row_id,
     stable_row_ids |-> previous.stable_row_ids,
     data_storage_format |-> previous.data_storage_format]

\* Fragment::try_infer_version: the file version <<major, minor>> of the data
\* files, None when there is no data file, an error when they differ.
try_infer_version(fragments) ==
    LET versions == UNION {{<<fragments[i].files[k].file_major_version,
                              fragments[i].files[k].file_minor_version>> :
                                k \in DOMAIN fragments[i].files} :
                            i \in DOMAIN fragments}
    IN IF versions = {} THEN [status |-> "Ok", version |-> None]
       ELSE IF Cardinality(versions) = 1
       THEN [status |-> "Ok", version |-> Some(CHOOSE v \in versions : TRUE)]
       ELSE [status |-> "InvalidInput", version |-> None]

\* Manifest::update_max_fragment_id: raise the recorded maximum to the largest
\* id of the fragment list; an empty fragment list leaves it alone.
update_max_fragment_id(m) ==
    IF m.fragments = <<>> THEN m
    ELSE LET mx == SetMax(IdSet(m.fragments)) IN
         IF m.max_fragment_id = None \/ mx > m.max_fragment_id[1]
         THEN [m EXCEPT !.max_fragment_id = Some(mx)]
         ELSE m

\* apply_feature_flags: the stable-row-id flag of a manifest is the one of the
\* manifest it derives from; a first manifest has it as requested.
apply_feature_flags(m, current_manifest, use_move_stable_row_ids) ==
    [m EXCEPT !.stable_row_ids =
        IF current_manifest = None THEN use_move_stable_row_ids
        ELSE current_manifest[1].stable_row_ids]

(* ------------------------------------------------- Transaction's helpers *)

\* fragments_with_ids with the cursor never advanced.
fragments_with_ids_no_advance(new_fragments, fragment_id) ==
    [fragments |-> [i \in DOMAIN new_fragments |->
                      IF new_fragments[i].id = 0
                      THEN [new_fragments[i] EXCEPT !.id = fragment_id]
                      ELSE new_fragments[i]],
     fragment_id |-> fragment_id]

\* Transaction::fragments_with_ids: a fragment arriving with id 0 takes the
\* cursor, which then advances; any other fragment keeps its id.
RECURSIVE fragments_with_ids(_, _)
fragments_with_ids(new_fragments, fragment_id) ==
    IF new_fragments = <<>>
    THEN [fragments |-> <<>>, fragment_id |-> fragment_id]
    ELSE LET f == Head(new_fragments)
             g == IF f.id = 0 THEN [f EXCEPT !.id = fragment_id] ELSE f
             next_id == IF f.id = 0 THEN fragment_id + 1 ELSE fragment_id
             rest == fragments_with_ids(Tail(new_fragments), next_id)
         IN [fragments |-> <<g>> \o rest.fragments,
             fragment_id |-> rest.fragment_id]

\* assign_row_ids with the cursor advanced by one per fragment instead of by
\* the fragment's physical_rows.
RECURSIVE assign_row_ids_per_fragment(_, _)
assign_row_ids_per_fragment(next_row_id, fragments) ==
    IF fragments = <<>>
    THEN [status |-> "Ok", next_row_id |-> next_row_id, fragments |-> <<>>]
    ELSE LET f == Head(fragments) IN
         IF f.physical_rows = None
         THEN [status |-> "Internal", next_row_id |-> next_row_id,
               fragments |-> <<>>]
         ELSE LET g == [f EXCEPT !.row_id_meta =
                            <<next_row_id, next_row_id + f.physical_rows[1]>>]
                  rest == assign_row_ids_per_fragment(next_row_id + 1,
                                                      Tail(fragments))
              IN [status |-> rest.status, next_row_id |-> rest.next_row_id,
                  fragments |-> <<g>> \o rest.fragments]

\* Transaction::assign_row_ids: each fragment takes the range
\* next_row_id .. next_row_id + physical_rows, in order; a fragment without
\* physical_rows is an Internal error.
RECURSIVE assign_row_ids(_, _)
assign_row_ids(next_row_id, fragments) ==
    IF fragments = <<>>
    THEN [status |-> "Ok", next_row_id |-> next_row_id, fragments |-> <<>>]
    ELSE LET f == Head(fragments) IN
         IF f.physical_rows = None
         THEN [status |-> "Internal", next_row_id |-> next_row_id,
               fragments |-> <<>>]
         ELSE LET physical_rows == f.physical_rows[1]
                  g == [f EXCEPT !.row_id_meta =
                            <<next_row_id, next_row_id + physical_rows>>]
                  rest == assign_row_ids(next_row_id + physical_rows,
                                         Tail(fragments))
              IN [status |-> rest.status, next_row_id |-> rest.next_row_id,
                  fragments |-> <<g>> \o rest.fragments]

\* The first position of final_fragments holding the id, or 0.
FindPosition(final_fragments, id) ==
    IF \E i \in DOMAIN final_fragments : final_fragments[i].id = id
    THEN CHOOSE i \in DOMAIN final_fragments :
            /\ final_fragments[i].id = id
            /\ \A j \in 1..(i - 1) : final_fragments[j].id # id
    ELSE 0

\* One group of Transaction::handle_rewrite_fragments.  The search for the
\* range looks up only the first old fragment; the loop over the others
\* indexes final_fragments[start + i] unchecked, so it panics when it runs
\* off the end of the list.
RewriteOneGroup(final_fragments, group, fragment_id) ==
    LET old == group.old_fragments
        unchanged == [status |-> "Ok", fragments |-> final_fragments,
                      fragment_id |-> fragment_id]
    IN
    IF old = <<>> THEN [unchanged EXCEPT !.status = "Panic"]
    ELSE
    LET start == FindPosition(final_fragments, old[1].id) IN
    IF start = 0 THEN [unchanged EXCEPT !.status = "CommitConflict"]
    ELSE
    LET stops == {i \in 2..Len(old) :
                    \/ start + i - 1 > Len(final_fragments)
                    \/ final_fragments[start + i - 1].id # old[i].id}
        stop == IF stops = {} THEN 0
                ELSE CHOOSE i \in stops : \A j \in stops : i <= j
    IN
    IF stop # 0 /\ start + stop - 1 > Len(final_fragments)
    THEN [unchanged EXCEPT !.status = "Panic"]
    ELSE
    LET new == fragments_with_ids(group.new_fragments, fragment_id) IN
    IF stop = 0
    THEN [status |-> "Ok",
          fragments |-> SubSeq(final_fragments, 1, start - 1)
                        \o new.fragments
                        \o SubSeq(final_fragments, start + Len(old),
                                  Len(final_fragments)),
          fragment_id |-> new.fragment_id]
    ELSE [status |-> "Ok",
          fragments |-> SelectSeq(final_fragments,
                                  LAMBDA f : f.id \notin IdSet(old))
                        \o new.fragments,
          fragment_id |-> new.fragment_id]

\* Transaction::handle_rewrite_fragments: the groups in order, each on the
\* list the earlier ones left.
RECURSIVE handle_rewrite_fragments(_, _, _)
handle_rewrite_fragments(final_fragments, groups, fragment_id) ==
    IF groups = <<>>
    THEN [status |-> "Ok", fragments |-> final_fragments,
          fragment_id |-> fragment_id]
    ELSE LET r == RewriteOneGroup(final_fragments, Head(groups), fragment_id)
         IN IF r.status # "Ok" THEN r
            ELSE handle_rewrite_fragments(r.fragments, Tail(groups),
                                          r.fragment_id)

\* Transaction::recalculate_fragment_bitmap: any_in_index and all_in_index are
\* judged on the old bitmap, the changes accumulate in new_bitmap, and the
\* ids inserted are the ones the operation's new fragments carry.
RECURSIVE recalculate_fragment_bitmap_from(_, _, _)
recalculate_fragment_bitmap_from(new_bitmap, old, groups) ==
    IF groups = <<>> THEN [status |-> "Ok", bitmap |-> new_bitmap]
    ELSE LET group == Head(groups)
             old_ids == IdSet(group.old_fragments)
             any_in_index == \E id \in old_ids : id \in old
             all_in_index == \A id \in old_ids : id \in old
         IN IF any_in_index
            THEN IF all_in_index
                 THEN recalculate_fragment_bitmap_from(
                          (new_bitmap \ old_ids) \cup IdSet(group.new_fragments),
                          old, Tail(groups))
                 ELSE [status |-> "InvalidInput", bitmap |-> old]
            ELSE recalculate_fragment_bitmap_from(new_bitmap, old, Tail(groups))

recalculate_fragment_bitmap(old, groups) ==
    recalculate_fragment_bitmap_from(old, old, groups)


\* lance_index::is_system_index: the fragment-reuse and MemWAL indices.
SystemIndexNames == {"__lance_frag_reuse", "__lance_mem_wal"}
is_system_index(index) == index.name \in SystemIndexNames

\* prune_updated_fields_from_indices taking the updated fragments out of every
\* bitmap, whatever the fields of the index.
prune_updated_fields_from_indices_of_all(idxs, updated_fragments, fields_modified) ==
    IF fields_modified = {} THEN idxs
    ELSE [i \in DOMAIN idxs |->
            IF idxs[i].fragment_bitmap # None
            THEN [idxs[i] EXCEPT !.fragment_bitmap =
                     Some(idxs[i].fragment_bitmap[1] \ IdSet(updated_fragments))]
            ELSE idxs[i]]

\* Transaction::prune_updated_fields_from_indices: an index covering a
\* modified field loses the updated fragments from its bitmap.
prune_updated_fields_from_indices(idxs, updated_fragments, fields_modified) ==
    IF fields_modified = {} THEN idxs
    ELSE [i \in DOMAIN idxs |->
            IF idxs[i].fields \cap fields_modified # {}
               /\ idxs[i].fragment_bitmap # None
            THEN [idxs[i] EXCEPT !.fragment_bitmap =
                     Some(idxs[i].fragment_bitmap[1] \ IdSet(updated_fragments))]
            ELSE idxs[i]]

\* retain_relevant_indices judging an index by its fields only.
retain_relevant_indices_by_fields(idxs, schema, fragments) ==
    SelectSeq(idxs, LAMBDA x : x.fields \subseteq schema \/ is_system_index(x))

\* Transaction::retain_relevant_indices: keep an index whose fields all exist
\* in the schema and whose bitmap (if any) names a fragment of the list;
\* system indices are kept.
retain_relevant_indices(idxs, schema, fragments) ==
    LET by_fields == SelectSeq(idxs,
            LAMBDA x : x.fields \subseteq schema \/ is_system_index(x))
    IN SelectSeq(by_fields,
            LAMBDA x : \/ x.fragment_bitmap = None
                       \/ x.fragment_bitmap[1] \cap IdSet(fragments) # {}
                       \/ is_system_index(x))

\* The loop of build_manifest over final_indices on the stable-row-id path of
\* a Rewrite: every stored bitmap is recalculated, the first error returned.
RecalculateAll(idxs, groups) ==
    LET res == [i \in DOMAIN idxs |->
                  IF idxs[i].fragment_bitmap = None
                  THEN [status |-> "Ok", bitmap |-> {}]
                  ELSE recalculate_fragment_bitmap(idxs[i].fragment_bitmap[1],
                                                   groups)]
    IN IF \E i \in DOMAIN idxs : res[i].status # "Ok"
       THEN [status |-> "InvalidInput", indices |-> idxs]
       ELSE [status |-> "Ok",
             indices |-> [i \in DOMAIN idxs |->
                            IF idxs[i].fragment_bitmap = None THEN idxs[i]
                            ELSE [idxs[i] EXCEPT !.fragment_bitmap =
                                     Some(res[i].bitmap)]]]

\* Transaction::handle_rewrite_indices: each rewritten index, found by its old
\* uuid, gets its bitmap recalculated and takes the new uuid.
RECURSIVE handle_rewrite_indices_from(_, _, _, _)
handle_rewrite_indices_from(idxs, rewritten_indices, groups, modified) ==
    IF rewritten_indices = <<>> THEN [status |-> "Ok", indices |-> idxs]
    ELSE LET rw == Head(rewritten_indices)
             at == {i \in DOMAIN idxs : idxs[i].uuid = rw.old_id}
         IN IF rw.old_id \in modified \/ at = {}
            THEN [status |-> "InvalidInput", indices |-> idxs]
            ELSE LET i == CHOOSE k \in at : \A j \in at : k <= j IN
                 IF idxs[i].fragment_bitmap = None
                 THEN [status |-> "InvalidInput", indices |-> idxs]
                 ELSE LET b == recalculate_fragment_bitmap(
                                   idxs[i].fragment_bitmap[1], groups)
                      IN IF b.status # "Ok"
                         THEN [status |-> b.status, indices |-> idxs]
                         ELSE handle_rewrite_indices_from(
                                  [idxs EXCEPT ![i] =
                                      [@ EXCEPT !.fragment_bitmap = Some(b.bitmap),
                                                !.uuid = rw.new_id]],
                                  Tail(rewritten_indices), groups,
                                  modified \cup {rw.old_id})

handle_rewrite_indices(idxs, rewritten_indices, groups) ==
    handle_rewrite_indices_from(idxs, rewritten_indices, groups, {})

(* ------------------------------------------ Transaction::build_manifest *)

\* InitialFragmentId taken from the fragments the current manifest lists
\* instead of from its max_fragment_id.
InitialFragmentId_from_list(operation, current_manifest) ==
    IF operation.kind = "Overwrite" THEN 0
    ELSE IF current_manifest = None THEN 0
    ELSE IF current_manifest[1].fragments = <<>> THEN 0
    ELSE SetMax(IdSet(current_manifest[1].fragments)) + 1

\* The fragment-id cursor: 0 for an Overwrite, else one past the current
\* manifest's max_fragment_id(), 0 when there is none.
InitialFragmentId(operation, current_manifest) ==
    IF operation.kind = "Overwrite" THEN 0
    ELSE IF current_manifest = None THEN 0
    ELSE LET mx == max_fragment_id(current_manifest[1]) IN
         IF mx = None THEN 0 ELSE mx[1] + 1

\* InitialNextRowId restarting at 0 instead of at the manifest's next_row_id.
InitialNextRowId_restart(current_manifest, config) ==
    IF current_manifest # None /\ current_manifest[1].stable_row_ids
    THEN [status |-> "Ok", next_row_id |-> Some(0)]
    ELSE IF current_manifest = None /\ config.use_move_stable_row_ids
    THEN [status |-> "Ok", next_row_id |-> Some(0)]
    ELSE IF ~config.use_move_stable_row_ids
    THEN [status |-> "Ok", next_row_id |-> None]
    ELSE [status |-> "NotSupported", next_row_id |-> None]

\* The row-id cursor: the current manifest's next_row_id when its flag is set,
\* 0 on a first manifest that asks for stable row ids, else none; asking for
\* them on a dataset without the flag is NotSupported.
InitialNextRowId(current_manifest, config) ==
    IF current_manifest # None /\ current_manifest[1].stable_row_ids
    THEN [status |-> "Ok", next_row_id |-> Some(current_manifest[1].next_row_id)]
    ELSE IF current_manifest = None /\ config.use_move_stable_row_ids
    THEN [status |-> "Ok", next_row_id |-> Some(0)]
    ELSE IF ~config.use_move_stable_row_ids
    THEN [status |-> "Ok", next_row_id |-> None]
    ELSE [status |-> "NotSupported", next_row_id |-> None]

\* The new fragments of an Append, Update or Overwrite: ids from the cursor,
\* then row ids when the row-id cursor is in use.
NewFragments(fragments, fragment_id, next_row_id) ==
    LET new == fragments_with_ids(fragments, fragment_id) IN
    IF next_row_id = None
    THEN [status |-> "Ok", fragments |-> new.fragments, next_row_id |-> None]
    ELSE LET a == assign_row_ids(next_row_id[1], new.fragments) IN
         [status |-> a.status, fragments |-> a.fragments,
          next_row_id |-> Some(a.next_row_id)]

\* The Append arm extending the list with the fragments as they arrived,
\* without fragments_with_ids.
AppendArm_without_ids(operation, existing, final_indices, fragment_id, next_row_id) ==
    LET a == IF next_row_id = None
             THEN [status |-> "Ok", fragments |-> operation.fragments,
                   next_row_id |-> 0]
             ELSE assign_row_ids(next_row_id[1], operation.fragments)
    IN [status |-> a.status, fragments |-> existing \o a.fragments,
        indices |-> final_indices,
        next_row_id |-> IF next_row_id = None THEN None
                        ELSE Some(a.next_row_id)]

\* The Append arm: the existing fragments, then the new ones.
AppendArm(operation, existing, final_indices, fragment_id, next_row_id) ==
    LET new == NewFragments(operation.fragments, fragment_id, next_row_id) IN
    [status |-> new.status, fragments |-> existing \o new.fragments,
     indices |-> final_indices, next_row_id |-> new.next_row_id]

\* The Delete arm keeping the fragments of deleted_fragment_ids.
DeleteArm_keeping(operation, existing, final_indices, schema, next_row_id) ==
    LET upd == operation.updated_fragments
        replaced == [i \in DOMAIN existing |->
            LET hits == {j \in DOMAIN upd : upd[j].id = existing[i].id} IN
            IF hits = {} THEN existing[i] ELSE upd[SetMax(hits)]]
    IN [status |-> "Ok", fragments |-> replaced,
        indices |-> retain_relevant_indices(final_indices, schema, replaced),
        next_row_id |-> next_row_id]

\* The Delete arm: the existing fragments without the deleted ones, each
\* replaced by the updated fragment of its id.
DeleteArm(operation, existing, final_indices, schema, next_row_id) ==
    LET kept == SelectSeq(existing,
                    LAMBDA f : f.id \notin Range(operation.deleted_fragment_ids))
        upd == operation.updated_fragments
        \* the last updated fragment with the id wins
        replaced == [i \in DOMAIN kept |->
            LET hits == {j \in DOMAIN upd : upd[j].id = kept[i].id} IN
            IF hits = {} THEN kept[i] ELSE upd[SetMax(hits)]]
    IN [status |-> "Ok", fragments |-> replaced,
        indices |-> retain_relevant_indices(final_indices, schema, replaced),
        next_row_id |-> next_row_id]

UpdateArm(operation, existing, final_indices, schema, fragment_id, next_row_id) ==
    LET kept == SelectSeq(existing,
                    LAMBDA f : f.id \notin Range(operation.removed_fragment_ids))
        upd == operation.updated_fragments
        \* the first updated fragment with the id wins
        replaced == [i \in DOMAIN kept |->
            LET hits == {j \in DOMAIN upd : upd[j].id = kept[i].id} IN
            IF hits = {} THEN kept[i]
            ELSE upd[CHOOSE j \in hits : \A k \in hits : j <= k]]
        pruned == prune_updated_fields_from_indices(final_indices, upd,
                                                    operation.fields_modified)
        new == NewFragments(operation.new_fragments, fragment_id, next_row_id)
        all == replaced \o new.fragments
    IN [status |-> new.status, fragments |-> all,
        indices |-> retain_relevant_indices(pruned, schema, all),
        next_row_id |-> new.next_row_id]

\* The Overwrite arm: the operation's fragments only, and no index.
OverwriteArm(operation, fragment_id, next_row_id) ==
    LET new == NewFragments(operation.fragments, fragment_id, next_row_id) IN
    [status |-> new.status, fragments |-> new.fragments,
     indices |-> <<>>, next_row_id |-> new.next_row_id]

RewriteArm(operation, existing, final_indices, fragment_id, next_row_id) ==
    LET frs == handle_rewrite_fragments(existing, operation.groups, fragment_id)
    IN IF frs.status # "Ok"
       THEN [status |-> frs.status, fragments |-> existing,
             indices |-> final_indices, next_row_id |-> next_row_id]
       ELSE LET idx == IF next_row_id # None
                       THEN RecalculateAll(final_indices, operation.groups)
                       ELSE handle_rewrite_indices(final_indices,
                                operation.rewritten_indices, operation.groups)
                reuse == operation.frag_reuse_index
                with_reuse ==
                    IF reuse = None THEN idx.indices
                    ELSE SelectSeq(idx.indices,
                                   LAMBDA x : x.name # reuse[1].name) \o reuse
            IN [status |-> idx.status, fragments |-> frs.fragments,
                indices |-> with_reuse, next_row_id |-> next_row_id]

CreateIndexArm(operation, existing, final_indices, next_row_id) ==
    LET kept == SelectSeq(final_indices, LAMBDA x :
            /\ ~\E i \in DOMAIN operation.new_indices :
                    operation.new_indices[i].name = x.name
            /\ ~\E i \in DOMAIN operation.removed_indices :
                    operation.removed_indices[i].uuid = x.uuid)
    IN [status |-> "Ok", fragments |-> existing,
        indices |-> kept \o operation.new_indices, next_row_id |-> next_row_id]

\* The Merge arm: the operation's fragments are the list.
MergeArm(operation, final_indices, schema, next_row_id) ==
    [status |-> "Ok", fragments |-> operation.fragments,
     indices |-> retain_relevant_indices(final_indices, schema,
                                         operation.fragments),
     next_row_id |-> next_row_id]

\* RetainedFiles keeping every file.
RetainedFiles_all(files, remaining_field_ids) == files

\* The files of a fragment a Project keeps: those with a field of the schema.
RetainedFiles(files, remaining_field_ids) ==
    SelectSeq(files,
              LAMBDA file : Range(file.fields) \cap remaining_field_ids # {})

\* The Project arm: the existing fragments, each without the data files that
\* hold no field of the schema.
ProjectArm(existing, final_indices, schema, next_row_id) ==
    LET kept == [i \in DOMAIN existing |->
                    [existing[i] EXCEPT
                        !.files = RetainedFiles(existing[i].files, schema)]]
    IN [status |-> "Ok", fragments |-> kept,
        indices |-> retain_relevant_indices(final_indices, schema, kept),
        next_row_id |-> next_row_id]

\* SameLayout judging by the fields only.
SameLayout_by_fields(file, new_file) == file.fields = new_file.fields

\* A data file of the fragment is replaced by the new file when fields and
\* file version are the same.
SameLayout(file, new_file) ==
    /\ file.fields = new_file.fields
    /\ file.file_major_version = new_file.file_major_version
    /\ file.file_minor_version = new_file.file_minor_version

\* One replacement on a copy of the fragment: every data file of the same
\* layout takes the new path and size; the new file is added (add_file) when
\* no data file of the fragment covers one of its fields.
ReplaceDataFile(frag, new_file) ==
    LET files == [k \in DOMAIN frag.files |->
                    IF SameLayout(frag.files[k], new_file)
                    THEN [frag.files[k] EXCEPT
                             !.path = new_file.path,
                             !.file_size_bytes = new_file.file_size_bytes]
                    ELSE frag.files[k]]
        columns_covered ==
            UNION {Range(frag.files[k].fields) : k \in DOMAIN frag.files}
    IN [frag EXCEPT !.files =
           IF columns_covered \cap Range(new_file.fields) = {}
           THEN Append(files, new_file) ELSE files]

\* The loop over the replacements <<fragment_id, new_file>>: the fragment is
\* looked up in the existing list, modified and pushed; a fragment that is
\* not found or that the replacement leaves as it was is InvalidInput.
RECURSIVE ReplaceDataFiles(_, _)
ReplaceDataFiles(existing, replacements) ==
    IF replacements = <<>> THEN [status |-> "Ok", fragments |-> <<>>]
    ELSE LET frag_id == Head(replacements)[1]
             new_file == Head(replacements)[2]
             at == FindPosition(existing, frag_id)
         IN IF at = 0 THEN [status |-> "InvalidInput", fragments |-> <<>>]
            ELSE LET new_frag == ReplaceDataFile(existing[at], new_file) IN
                 IF new_frag = existing[at]
                 THEN [status |-> "InvalidInput", fragments |-> <<>>]
                 ELSE LET rest == ReplaceDataFiles(existing, Tail(replacements))
                      IN [status |-> rest.status,
                          fragments |-> <<new_frag>> \o rest.fragments]

\* The DataReplacement arm without the check of the new files' fields.
DataReplacementArm_any_fields(operation, existing, final_indices, next_row_id) ==
    LET replacements == operation.replacements
        fragments_changed == {replacements[i][1] : i \in DOMAIN replacements}
        unmodified == SelectSeq(existing,
                                LAMBDA f : f.id \notin fragments_changed)
        modified == ReplaceDataFiles(existing, replacements)
    IN [status |-> modified.status,
        fragments |-> modified.fragments \o unmodified,
        indices |-> final_indices, next_row_id |-> next_row_id]

\* The DataReplacement arm: the new files must all have the same fields; the
\* modified fragments, then the fragments no replacement names.
DataReplacementArm(operation, existing, final_indices, next_row_id) ==
    LET replacements == operation.replacements
        fragments_changed == {replacements[i][1] : i \in DOMAIN replacements}
        unmodified == SelectSeq(existing,
                                LAMBDA f : f.id \notin fragments_changed)
        modified == ReplaceDataFiles(existing, replacements)
    IN IF Cardinality({replacements[i][2].fields :
                          i \in DOMAIN replacements}) > 1
       THEN [status |-> "InvalidInput", fragments |-> existing,
             indices |-> final_indices, next_row_id |-> next_row_id]
       ELSE [status |-> modified.status,
             fragments |-> modified.fragments \o unmodified,
             indices |-> final_indices, next_row_id |-> next_row_id]

\* update_mem_wal_index_in_indices_list: the MemWAL index of the list is
\* taken out and a new one, of the MemWALs that are left, is pushed at the end.
MemWalIndex(mem_wal_list) ==
    [uuid |-> 0, name |-> "__lance_mem_wal", fields |-> {},
     fragment_bitmap |-> None, mem_wal_list |-> mem_wal_list]

update_mem_wal_index_in_indices_list(indices_list, added, updated, removed) ==
    LET held == UNION {indices_list[i].mem_wal_list :
                          i \in {j \in DOMAIN indices_list :
                                    indices_list[j].name = "__lance_mem_wal"}}
        kept == {m \in held :
                    /\ \A u \in updated : u.id # m.id
                    /\ \A d \in removed : d.id # m.id}
    IN SelectSeq(indices_list, LAMBDA idx : idx.name # "__lance_mem_wal")
          \o <<MemWalIndex(kept \cup updated \cup added)>>

\* The arm of UpdateMemWalState: the index list is updated; nothing is put
\* in final_fragments.
UpdateMemWalStateArm(operation, final_indices, next_row_id) ==
    [status |-> "Ok", fragments |-> <<>>,
     indices |-> update_mem_wal_index_in_indices_list(
                     final_indices, operation.added, operation.updated,
                     operation.removed),
     next_row_id |-> next_row_id]

UnchangedArm(existing, final_indices, next_row_id) ==
    [status |-> "Ok", fragments |-> existing, indices |-> final_indices,
     next_row_id |-> next_row_id]

\* ReserveMore leaving max_fragment_id as it is.
ReserveMore_nothing(m, operation) == m

\* manifest.update_max_fragment_id(), and the ReserveFragments step that adds
\* num_fragments to max_fragment_id (None counted as 0).
ReserveMore(m, operation) ==
    IF operation.kind = "ReserveFragments"
    THEN [m EXCEPT !.max_fragment_id =
             Some((IF @ = None THEN 0 ELSE @[1]) + operation.num_fragments)]
    ELSE m

\* The end of build_manifest without manifest.update_max_fragment_id().
UpdateMaxFragmentId_skipped(m, operation) == ReserveMore(m, operation)

UpdateMaxFragmentId(m, operation) ==
    ReserveMore(update_max_fragment_id(m), operation)

Failure(status, current_indices) ==
    [status |-> status, manifest |-> None, indices |-> current_indices]

\* SchemaOf keeping the schema of the current manifest, when there is one.
SchemaOf_kept(operation, current_manifest) ==
    IF current_manifest = None THEN operation.schema
    ELSE current_manifest[1].schema

\* The schema of the next manifest: the operation's for Overwrite, Merge and
\* Project, else the current manifest's.
SchemaOf(operation, current_manifest) ==
    IF operation.kind \in {"Overwrite", "Merge", "Project"}
    THEN operation.schema
    ELSE current_manifest[1].schema

ExistingFragments(current_manifest) ==
    IF current_manifest = None THEN <<>> ELSE current_manifest[1].fragments

\* The match on the operation: the fragment list, the index list and the
\* row-id cursor each arm leaves.
OperationArm(operation, existing, current_indices, schema, fragment_id, next_row_id) ==
    CASE operation.kind = "Append" ->
           AppendArm(operation, existing, current_indices, fragment_id,
                     next_row_id)
      [] operation.kind = "Delete" ->
           DeleteArm(operation, existing, current_indices, schema, next_row_id)
      [] operation.kind = "Update" ->
           UpdateArm(operation, existing, current_indices, schema, fragment_id,
                     next_row_id)
      [] operation.kind = "Overwrite" ->
           OverwriteArm(operation, fragment_id, next_row_id)
      [] operation.kind = "Rewrite" ->
           RewriteArm(operation, existing, current_indices, fragment_id,
                      next_row_id)
      [] operation.kind = "CreateIndex" ->
           CreateIndexArm(operation, existing, current_indices, next_row_id)
      [] operation.kind \in {"ReserveFragments", "UpdateConfig"} ->
           UnchangedArm(existing, current_indices, next_row_id)
      [] operation.kind = "Restore" ->
           \* unreachable!()
           [UnchangedArm(existing, current_indices, next_row_id)
               EXCEPT !.status = "Panic"]
      [] operation.kind = "Merge" ->
           MergeArm(operation, current_indices, schema, next_row_id)
      [] operation.kind = "Project" ->
           ProjectArm(existing, current_indices, schema, next_row_id)
      [] operation.kind = "DataReplacement" ->
           DataReplacementArm(operation, existing, current_indices,
                              next_row_id)
      [] operation.kind = "UpdateMemWalState" ->
           UpdateMemWalStateArm(operation, current_indices, next_row_id)

\* Transaction::data_storage_format_from_files: the version of the data files,
\* which a requested version must equal; without data files the requested
\* version, else the default one (2.0).
data_storage_format_from_files(fragments, user_requested) ==
    LET inferred == try_infer_version(fragments) IN
    IF inferred.status # "Ok" THEN [status |-> inferred.status, format |-> None]
    ELSE IF inferred.version # None
    THEN IF user_requested # None /\ user_requested # inferred.version
         THEN [status |-> "InvalidInput", format |-> None]
         ELSE [status |-> "Ok", format |-> inferred.version]
    ELSE [status |-> "Ok",
          format |-> IF user_requested # None THEN user_requested
                     ELSE Some(<<2, 0>>)]

\* The data storage format of the next manifest.  The version the caller
\* requested is config.storage_format (use_legacy_format is not set).  On an
\* existing dataset the format is the current manifest's, or the requested one
\* for an Overwrite; the data files are looked at only for a first manifest.
StorageFormat(operation, current_manifest, config, final_fragments) ==
    IF current_manifest # None
    THEN [status |-> "Ok",
          format |-> IF config.storage_format # None
                        /\ operation.kind = "Overwrite"
                     THEN config.storage_format
                     ELSE Some(current_manifest[1].data_storage_format)]
    ELSE data_storage_format_from_files(final_fragments, config.storage_format)

\* Manifest::new_from_previous on the current manifest, Manifest::new when
\* there is none, on the fragment list sorted by id.
DeriveManifest(current_manifest, schema, final_fragments, format) ==
    IF current_manifest # None
    THEN [new_from_previous(current_manifest[1], schema, final_fragments)
             EXCEPT !.data_storage_format = format]
    ELSE ManifestNew(schema, final_fragments, format)

\* manifest.next_row_id = next_row_id, when the row-id cursor is in use.
SetNextRowId(m, next_row_id) ==
    IF next_row_id # None THEN [m EXCEPT !.next_row_id = next_row_id[1]] ELSE m

\* The end of build_manifest: sort, derive, flags, max_fragment_id,
\* next_row_id.
Assemble(operation, current_manifest, current_indices, config, schema, arm) ==
    IF arm.status # "Ok" THEN Failure(arm.status, current_indices)
    ELSE
    LET final_fragments == sort_by_key_id(arm.fragments)
        storage == StorageFormat(operation, current_manifest, config,
                                 final_fragments)
    IN
    IF storage.status # "Ok" THEN Failure(storage.status, current_indices)
    ELSE [status |-> "Ok",
          manifest |-> Some(SetNextRowId(
              UpdateMaxFragmentId(
                  apply_feature_flags(
                      DeriveManifest(current_manifest, schema, final_fragments,
                                     storage.format[1]),
                      current_manifest, config.use_move_stable_row_ids),
                  operation),
              arm.next_row_id)),
          indices |-> arm.indices]

\* The cursors set up, the match on the operation, the end of build_manifest.
WithCursors(operation, current_manifest, current_indices, config, schema, fragment_id, row) ==
    IF row.status # "Ok" THEN Failure(row.status, current_indices)
    ELSE Assemble(operation, current_manifest, current_indices, config, schema,
                  OperationArm(operation, ExistingFragments(current_manifest),
                               current_indices, schema, fragment_id,
                               row.next_row_id))

\* build_manifest going on without stable row ids where they cannot be
\* enabled.
build_manifest_without_stable_row_ids(operation, current_manifest, current_indices, config) ==
    IF /\ operation.kind \notin {"Overwrite", "Merge"}
       /\ current_manifest = None
    THEN Failure("Internal", current_indices)
    ELSE LET plain == IF current_manifest # None
                         /\ ~uses_move_stable_row_ids(current_manifest[1])
                      THEN [config EXCEPT !.use_move_stable_row_ids = FALSE]
                      ELSE config
         IN WithCursors(operation, current_manifest, current_indices, plain,
                        SchemaOf(operation, current_manifest),
                        InitialFragmentId(operation, current_manifest),
                        InitialNextRowId(current_manifest, plain))

\* Transaction::build_manifest.
build_manifest(operation, current_manifest, current_indices, config) ==
    IF /\ config.use_move_stable_row_ids
       /\ current_manifest # None
       /\ ~uses_move_stable_row_ids(current_manifest[1])
    THEN Failure("NotSupported", current_indices)
    ELSE IF /\ operation.kind \notin {"Overwrite", "Merge"}
            /\ current_manifest = None
    THEN \* no schema, or (Project) no existing fragments
         Failure("Internal", current_indices)
    ELSE WithCursors(operation, current_manifest, current_indices, config,
                     SchemaOf(operation, current_manifest),
                     InitialFragmentId(operation, current_manifest),
                     InitialNextRowId(current_manifest, config))


(* -------------------------------------------------- conflict resolution *)

\* The operations the matrix of the module documentation names.  Delete and
\* Update share a row and a column.
Columns ==
    <<"Append", "Delete / Update", "Overwrite", "CreateIndex", "Rewrite",
      "Merge", "Project", "UpdateConfig", "DataReplacement">>

LabelOf(kind) == IF kind \in {"Delete", "Update"} THEN "Delete / Update" ELSE kind

ColumnOf(kind) == CHOOSE i \in DOMAIN Columns : Columns[i] = LabelOf(kind)

\* The matrix: one row per pending operation (the one checked to see whether
\* it can retry), one column per committed operation.  "ok" is compatible,
\* "no" is a conflict, "1", "2", "3" are the conditions of the footnotes.
Matrix ==
    [i \in DOMAIN Columns |->
        CASE i = 1 -> <<"ok", "ok", "no", "ok", "ok", "no", "no", "ok", "ok">>
          [] i = 2 -> <<"ok", "1",  "no", "ok", "1",  "no", "no", "ok", "ok">>
          [] i = 3 -> <<"ok", "ok", "ok", "ok", "ok", "ok", "ok", "2",  "ok">>
          [] i = 4 -> <<"ok", "ok", "no", "ok", "ok", "ok", "ok", "ok", "3">>
          [] i = 5 -> <<"ok", "1",  "no", "no", "1",  "no", "no", "ok", "3">>
          [] i = 6 -> <<"no", "no", "no", "no", "ok", "no", "no", "ok", "ok">>
          [] i = 7 -> <<"ok", "ok", "no", "no", "ok", "no", "ok", "ok", "ok">>
          [] i = 8 -> <<"ok", "ok", "2",  "ok", "ok", "ok", "ok", "2",  "ok">>
          [] i = 9 -> <<"ok", "ok", "no", "3",  "1",  "ok", "3",  "ok", "3">>]

\* The matrix read with rows and columns exchanged.
MatrixCell_transposed(self_kind, other_kind) ==
    Matrix[ColumnOf(other_kind)][ColumnOf(self_kind)]

MatrixCell(self_kind, other_kind) ==
    Matrix[ColumnOf(self_kind)][ColumnOf(other_kind)]

\* The fragments a Delete, Update, Rewrite or DataReplacement affects, with
\* the fragments a Delete or Update rewrote left out.
modified_fragment_ids_removed_only(operation) ==
    CASE operation.kind = "Delete" -> Range(operation.deleted_fragment_ids)
      [] operation.kind = "Update" -> Range(operation.removed_fragment_ids)
      [] operation.kind = "Rewrite" ->
           UNION {IdSet(operation.groups[i].old_fragments) :
                     i \in DOMAIN operation.groups}
      [] operation.kind = "DataReplacement" ->
           {operation.replacements[i].fragment_id :
               i \in DOMAIN operation.replacements}
      [] OTHER -> {}

\* The fragments a Delete, Update, Rewrite or DataReplacement affects.
modified_fragment_ids(operation) ==
    CASE operation.kind = "Delete" ->
           Range(operation.deleted_fragment_ids)
               \cup IdSet(operation.updated_fragments)
      [] operation.kind = "Update" ->
           Range(operation.removed_fragment_ids)
               \cup IdSet(operation.updated_fragments)
      [] operation.kind = "Rewrite" ->
           UNION {IdSet(operation.groups[i].old_fragments) :
                     i \in DOMAIN operation.groups}
      [] operation.kind = "DataReplacement" ->
           {operation.replacements[i].fragment_id :
               i \in DOMAIN operation.replacements}
      [] OTHER -> {}

\* Footnote 1: compatible only if they affect distinct fragments.
Footnote1(self, other) ==
    modified_fragment_ids(self) \cap modified_fragment_ids(other) = {}

\* Operation::get_upsert_config_keys.  A map is a function; its keys are its
\* domain.
get_upsert_config_keys(operation) ==
    IF operation.kind = "Overwrite" /\ operation.config_upsert_values # None
    THEN DOMAIN operation.config_upsert_values[1]
    ELSE IF operation.kind = "UpdateConfig" /\ operation.upsert_values # None
    THEN DOMAIN operation.upsert_values[1]
    ELSE {}

\* Operation::get_delete_config_keys.
get_delete_config_keys(operation) ==
    IF operation.kind = "UpdateConfig" /\ operation.delete_keys # None
    THEN Range(operation.delete_keys[1])
    ELSE {}

\* Operation::modifies_same_metadata.
modifies_same_metadata(self, other) ==
    IF self.kind = "UpdateConfig" /\ other.kind = "UpdateConfig"
    THEN \/ self.schema_metadata # None /\ other.schema_metadata # None
         \/ /\ self.field_metadata # None
            /\ other.field_metadata # None
            /\ \E field \in DOMAIN self.field_metadata[1] :
                  field \in DOMAIN other.field_metadata[1]
    ELSE FALSE

\* Operation::upsert_key_conflict with the keys the other operation deletes
\* left out.
upsert_key_conflict_upserts_only(self, other) ==
    get_upsert_config_keys(self) \cap get_upsert_config_keys(other) # {}

\* Operation::upsert_key_conflict.
upsert_key_conflict(self, other) ==
    \/ \E x \in get_upsert_config_keys(self) :
          \/ x \in get_upsert_config_keys(other)
          \/ x \in get_delete_config_keys(other)
    \/ \E x \in get_upsert_config_keys(other) :
          \/ x \in get_upsert_config_keys(self)
          \/ x \in get_delete_config_keys(self)

\* Footnote 2: operations that mutate the config conflict if one upserts a
\* key the other references, or if both modify the schema metadata or the
\* same field's metadata.
Footnote2(self, other) ==
    /\ ~upsert_key_conflict(self, other)
    /\ ~modifies_same_metadata(self, other)

\* The region (fragments, fields) of the column a DataReplacement replaces.
ReplacedFragments(operation) ==
    {operation.replacements[i].fragment_id : i \in DOMAIN operation.replacements}

ReplacedFields(operation) ==
    UNION {operation.replacements[i].new_file.fields :
              i \in DOMAIN operation.replacements}

\* Footnote 3: a DataReplacement is compatible as long as the column has no
\* index and the other operation does not modify the region replaced.
Footnote3(self, other) ==
    LET dr == IF self.kind = "DataReplacement" THEN self ELSE other
        op == IF self.kind = "DataReplacement" THEN other ELSE self
    IN CASE op.kind = "CreateIndex" ->
              \A i \in DOMAIN op.new_indices :
                  op.new_indices[i].fields \cap ReplacedFields(dr) = {}
         [] op.kind = "Rewrite" ->
              modified_fragment_ids(op) \cap ReplacedFragments(dr) = {}
         [] op.kind = "Project" ->
              ReplacedFields(dr) \subseteq op.schema
         [] op.kind = "DataReplacement" ->
              \/ ReplacedFragments(op) \cap ReplacedFragments(dr) = {}
              \/ ReplacedFields(op) \cap ReplacedFields(dr) = {}
         [] OTHER -> TRUE

\* Whether the operation (pending) conflicts with the other one (committed).
conflicts_with(self, other) ==
    LET cell == MatrixCell(self.kind, other.kind) IN
    CASE cell = "ok" -> FALSE
      [] cell = "no" -> TRUE
      [] cell = "1" -> ~Footnote1(self, other)
      [] cell = "2" -> ~Footnote2(self, other)
      [] cell = "3" -> ~Footnote3(self, other)

(* ------------------------------------------------- the operations' inputs *)

\* The set as a sequence in ascending order.
RECURSIVE SortedSeq(_)
SortedSeq(S) ==
    IF S = {} THEN <<>>
    ELSE LET x == CHOOSE y \in S : \A z \in S : y <= z
         IN <<x>> \o SortedSeq(S \ {x})

\* The sequences over S of length lo .. hi.
SeqsOf(S, lo, hi) == UNION {[1..n -> S] : n \in lo..hi}

CurrentVersion == IF manifest = None THEN 0 ELSE manifest[1].version
CurrentFragments == IF manifest = None THEN <<>> ELSE manifest[1].fragments
CurrentIds == IdSet(CurrentFragments)

\* The version the next manifest will have; it names the files written for it.
NextVersion == CurrentVersion + 1

\* The physical_rows of the fragments one operation brings: a count each, or
\* a single fragment whose count was never recorded.
PhysicalRowsChoices(lo, hi) ==
    SeqsOf({Some(r) : r \in 1..MaxRows}, lo, hi) \cup {<<None>>}

\* Freshly written fragments: id 0 (not yet assigned), one new data file each.
WrittenFragments(rows) ==
    [i \in DOMAIN rows |-> Fragment(0, <<NextVersion, i>>, rows[i])]

NewFragmentChoices(lo, hi) ==
    {WrittenFragments(rows) : rows \in PhysicalRowsChoices(lo, hi)}

\* The writer's configuration.  A writer of a dataset that has stable row ids
\* asks for them; on any other dataset it may or may not.  It requests no
\* data storage version.
Configs ==
    {c \in [use_move_stable_row_ids : BOOLEAN, storage_format : {None}] :
        (manifest # None /\ uses_move_stable_row_ids(manifest[1]))
            => c.use_move_stable_row_ids}

\* The schema is the set of its field ids (fields_pre_order().map(|f| f.id)).
Schemas == {{0, 1}}

\* The fragment of the current list with the id, with a new deletion file.
WithDeletionFile(id) ==
    LET f == CurrentFragments[FindPosition(CurrentFragments, id)]
    IN [f EXCEPT !.deletion_file = Some(NextVersion)]

\* An id no fragment of the current list has.
AbsentId == SetMax(CurrentIds \cup hist.reserved \cup {0}) + 1

\* The old fragments a rewrite group may name: fragments of the current list,
\* in any order, and possibly one the list does not hold.
OldFragment(id) ==
    IF id \in CurrentIds
    THEN CurrentFragments[FindPosition(CurrentFragments, id)]
    ELSE FragmentNew(id)

OldFragmentChoices ==
    {[i \in DOMAIN ids |-> OldFragment(ids[i])] :
        ids \in {s \in SeqsOf(CurrentIds \cup {AbsentId}, 1, MaxNewFragments) :
                    \A i, j \in DOMAIN s : i # j => s[i] # s[j]}}

\* The new fragments of a rewrite group: written for this transaction, all
\* with id 0, or the first with an id that a ReserveFragments reserved.
RewrittenFragments(ids, base) ==
    [i \in DOMAIN ids |-> Fragment(ids[i], <<NextVersion, base + i>>, Some(1))]

NewIdChoices ==
    SeqsOf({0}, 1, MaxNewFragments)
        \cup {<<id>> : id \in hist.reserved}
        \cup {<<id, 0>> : id \in hist.reserved}

RewriteGroup(old, new_ids, base) ==
    [old_fragments |-> old, new_fragments |-> RewrittenFragments(new_ids, base)]

\* One group, or two groups of one old and one new fragment each.
GroupChoices ==
    {<<RewriteGroup(old, ids, 0)>> :
        old \in OldFragmentChoices, ids \in NewIdChoices}
    \cup
    {<<RewriteGroup(<<OldFragment(p[1])>>, <<0>>, 0),
       RewriteGroup(<<OldFragment(p[2])>>, <<0>>, 1)>> :
        p \in {q \in CurrentIds \X CurrentIds : q[1] # q[2]}}

IndexNames == {"idx"}

\* A new index over field 0: it covers one of the current fragments or all
\* of them, or stores no bitmap.
NewIndexChoices ==
    {[uuid |-> NextVersion, name |-> n, fields |-> {0}, fragment_bitmap |-> b] :
        n \in IndexNames,
        b \in {None, Some(CurrentIds)} \cup {Some({id}) : id \in CurrentIds}}

(* ----------------------------------------------------------- the history *)

\* What the manifest just built adds to the history: the ids its fragments
\* have, the ids a ReserveFragments reserved, the row-id ranges handed out.
ReservedBy(operation, current_manifest) ==
    IF operation.kind # "ReserveFragments" THEN {}
    ELSE LET mx == IF current_manifest[1].max_fragment_id = None THEN 0
                   ELSE current_manifest[1].max_fragment_id[1]
         IN (mx + 1)..(mx + operation.num_fragments)

\* The fragments of the manifest that hold a file written for it.
WrittenFor(m) ==
    {m.fragments[i] : i \in {j \in DOMAIN m.fragments :
        \E k \in DOMAIN m.fragments[j].files :
            m.fragments[j].files[k].path[1] = m.version}}

HistAfter(operation, current_manifest, m) ==
    LET ranges == {f.row_id_meta : f \in {g \in WrittenFor(m) :
                                              g.row_id_meta # None}}
        reserved == ReservedBy(operation, current_manifest)
    IN IF operation.kind = "Overwrite"
       THEN [used_ids |-> IdSet(m.fragments), reserved |-> {},
             row_ranges |-> ranges]
       ELSE [used_ids |-> hist.used_ids \cup IdSet(m.fragments) \cup reserved,
             reserved |-> (hist.reserved \cup reserved) \ IdSet(m.fragments),
             row_ranges |-> hist.row_ranges \cup ranges]

(* ---------------------------------------------------- the state machine *)

NoOperation == [kind |-> "None"]

NoHistory == [used_ids |-> {}, reserved |-> {}, row_ranges |-> {}]

\* No build_manifest call is in flight.
Idle ==
    [operation |-> NoOperation,
     config |-> [use_move_stable_row_ids |-> FALSE, storage_format |-> None],
     current_manifest |-> None, current_indices |-> <<>>,
     hist |-> NoHistory,
     status |-> "None", manifest |-> None, indices |-> <<>>]

Init ==
    /\ manifest = None
    /\ indices = <<>>
    /\ hist = NoHistory
    /\ last = Idle
    /\ pending = {}
    /\ committed = <<>>
    /\ SchemaEngineIdle

\* One call of build_manifest on the current manifest and index list: `last`
\* holds what it was given and what it returned.
Call(operation, config, r) ==
    [operation |-> operation, config |-> config,
     current_manifest |-> manifest, current_indices |-> indices,
     hist |-> hist, status |-> r.status,
     manifest |-> r.manifest, indices |-> r.indices]

Apply(operation, config) ==
    /\ last.status = "None"
    /\ CurrentVersion < MaxVersion
    /\ last' = Call(operation, config,
                    build_manifest(operation, manifest, indices, config))
    /\ UNCHANGED <<manifest, indices, hist, pending, committed>>
    /\ UNCHANGED schema_vars

\* The commit handler publishes the manifest and index list build_manifest
\* returned; an error leaves the dataset as it was.
Publish ==
    /\ last.status # "None"
    /\ IF last.status = "Ok"
       THEN /\ manifest' = last.manifest
            /\ indices' = last.indices
            /\ hist' = HistAfter(last.operation, last.current_manifest,
                                 last.manifest[1])
       ELSE UNCHANGED <<manifest, indices, hist>>
    /\ last' = Idle
    /\ UNCHANGED <<pending, committed>>
    /\ UNCHANGED schema_vars

AppendOp ==
    \E fragments \in NewFragmentChoices(0, MaxNewFragments), config \in Configs :
        Apply([kind |-> "Append", fragments |-> fragments], config)

Overwrite ==
    \E fragments \in NewFragmentChoices(0, MaxNewFragments),
       schema \in Schemas, config \in Configs :
        Apply([kind |-> "Overwrite", fragments |-> fragments,
               schema |-> schema], config)

\* A Delete removes one fragment or rewrites the deletion file of one, or
\* both.
Delete ==
    \E deleted \in {u \in SUBSET CurrentIds : Cardinality(u) <= 1},
       config \in Configs :
    \E updated \in {u \in SUBSET (CurrentIds \ deleted) : Cardinality(u) <= 1} :
        Apply([kind |-> "Delete",
               deleted_fragment_ids |-> SortedSeq(deleted),
               updated_fragments |->
                   [i \in 1..Cardinality(updated) |->
                       WithDeletionFile(SortedSeq(updated)[i])]], config)

\* An Update removes a fragment or rewrites the deletion file of one, and
\* may write a new fragment.
Update ==
    \E touched \in {u \in SUBSET CurrentIds : Cardinality(u) <= 1},
       removes \in BOOLEAN, config \in Configs,
       fragments \in NewFragmentChoices(0, 1) :
        /\ (removes => touched # {})
        /\ Apply([kind |-> "Update",
                  removed_fragment_ids |->
                      IF removes THEN SortedSeq(touched) ELSE <<>>,
                  updated_fragments |->
                      IF removes THEN <<>>
                      ELSE [i \in 1..Cardinality(touched) |->
                               WithDeletionFile(SortedSeq(touched)[i])],
                  new_fragments |-> fragments,
                  fields_modified |-> {}], config)

Rewrite ==
    \E groups \in GroupChoices, config \in Configs :
        Apply([kind |-> "Rewrite", groups |-> groups,
               rewritten_indices |-> <<>>, frag_reuse_index |-> None], config)

CreateIndex ==
    \E index \in NewIndexChoices, config \in Configs :
        Apply([kind |-> "CreateIndex", new_indices |-> <<index>>,
               removed_indices |-> <<>>], config)

ReserveFragments ==
    \E num \in 0..MaxNewFragments, config \in Configs :
        Apply([kind |-> "ReserveFragments", num_fragments |-> num], config)

Next ==
    \/ AppendOp
    \/ Overwrite
    \/ Delete
    \/ Update
    \/ Rewrite
    \/ CreateIndex
    \/ ReserveFragments
    \/ Publish

Spec == Init /\ [][Next]_vars

(* ------------------------------------- the conflict decision, on its own *)

\* A transaction: Transaction { read_version, uuid, operation }.
Transaction(uuid, read_version, operation) ==
    [uuid |-> uuid, read_version |-> read_version, operation |-> operation]

\* The sets of fragments an operation may name.
FragmentIdSets == {{4, 5}, {5, 6}, {7, 8}, {6}}

\* A Delete or an Update of the fragments: all of them removed, or the last
\* removed and the others rewritten.
RemovedChoices(S) == {S, {SetMax(S)}}

NamedFragments(S) == [i \in 1..Cardinality(S) |-> FragmentNew(SortedSeq(S)[i])]

DeleteOperations ==
    {[kind |-> "Delete", deleted_fragment_ids |-> SortedSeq(D),
      updated_fragments |-> NamedFragments(S \ D)] :
        <<S, D>> \in {p \in FragmentIdSets \X SUBSET (4..8) : p[2] \in RemovedChoices(p[1])}}

UpdateOperations ==
    {[kind |-> "Update", removed_fragment_ids |-> SortedSeq(D),
      updated_fragments |-> NamedFragments(S \ D),
      new_fragments |-> <<>>, fields_modified |-> {}] :
        <<S, D>> \in {p \in FragmentIdSets \X SUBSET (4..8) : p[2] \in RemovedChoices(p[1])}}

\* A Rewrite of the fragments as one group, or one group per fragment.
RewriteOperations ==
    {[kind |-> "Rewrite",
      groups |-> <<[old_fragments |-> NamedFragments(S),
                    new_fragments |-> <<FragmentNew(0)>>]>>,
      rewritten_indices |-> <<>>, frag_reuse_index |-> None] :
        S \in FragmentIdSets}
    \cup
    {[kind |-> "Rewrite",
      groups |-> [i \in 1..Cardinality(S) |->
                    [old_fragments |-> <<FragmentNew(SortedSeq(S)[i])>>,
                     new_fragments |-> <<FragmentNew(0)>>]],
      rewritten_indices |-> <<>>, frag_reuse_index |-> None] :
        S \in FragmentIdSets}

ConfigKeys == {"j", "k"}

\* No upserts, or the upsert of one key.
ConfigMaps == {None} \cup {Some([k \in {key} |-> "v"]) : key \in ConfigKeys}

OverwriteOperations ==
    {[kind |-> "Overwrite", fragments |-> <<>>, schema |-> schema,
      config_upsert_values |-> m] : schema \in Schemas, m \in ConfigMaps}

UpdateConfigOperations ==
    {[kind |-> "UpdateConfig", upsert_values |-> u, delete_keys |-> d,
      schema_metadata |-> s, field_metadata |-> f] :
        u \in ConfigMaps,
        d \in {None} \cup {Some(<<k>>) : k \in ConfigKeys},
        s \in {None, Some([k \in {"k"} |-> "v"])},
        f \in {None} \cup {Some([id \in {field} |-> [k \in {"k"} |-> "v"]]) :
                             field \in {0, 1}}}

OtherOperations ==
    {[kind |-> "Append", fragments |-> <<>>],
     [kind |-> "Merge", fragments |-> <<>>, schema |-> {0, 1}],
     [kind |-> "Project", schema |-> {0}],
     [kind |-> "Project", schema |-> {0, 1}]}
    \cup
    {[kind |-> "CreateIndex",
      new_indices |-> <<[uuid |-> 1, name |-> "idx", fields |-> {field},
                         fragment_bitmap |-> None]>>,
      removed_indices |-> <<>>] : field \in {0, 1}}
    \cup
    {[kind |-> "DataReplacement",
      replacements |-> <<[fragment_id |-> id, new_file |-> [fields |-> {1}]]>>] :
        id \in {5, 7}}

ConflictOperations ==
    DeleteOperations \cup UpdateOperations \cup RewriteOperations
        \cup OverwriteOperations \cup UpdateConfigOperations
        \cup OtherOperations

\* One operation is committed, another one is pending.
InitConflict ==
    /\ manifest = None
    /\ indices = <<>>
    /\ hist = NoHistory
    /\ last = Idle
    /\ SchemaEngineIdle
    /\ \E p \in ConflictOperations, c \in ConflictOperations :
          /\ pending = {Transaction(2, 1, p)}
          /\ committed = <<Transaction(1, 1, c)>>

\* The decision on the pending operation against the committed one.
Resolve ==
    /\ last.status = "None"
    /\ \E t \in pending :
          last' = [Idle EXCEPT
                      !.operation = t.operation,
                      !.status = IF conflicts_with(t.operation,
                                                   committed[1].operation)
                                 THEN "Conflict" ELSE "Compatible"]
    /\ UNCHANGED <<manifest, indices, hist, pending, committed>>
    /\ UNCHANGED schema_vars

NextConflict == Resolve

SpecConflict == InitConflict /\ [][NextConflict]_vars

(* --------------------------------------- two Appends on one read_version *)

\* The fragments a transaction wrote: id 0, the files of transaction uuid
\* numbered apart from the other transaction's.
TransactionFragments(uuid, read_version, rows) ==
    [i \in DOMAIN rows |->
        Fragment(0, <<read_version + 1, uuid * MaxNewFragments + i>>, rows[i])]

AppendTransactions(uuid, read_version) ==
    {Transaction(uuid, read_version,
                 [kind |-> "Append",
                  fragments |-> TransactionFragments(uuid, read_version, rows)]) :
        rows \in SeqsOf({Some(r) : r \in 1..MaxRows}, 1, MaxNewFragments)}

\* The dataset an Overwrite created, and two Appends prepared on it.
InitConcurrent ==
    /\ hist = NoHistory
    /\ last = Idle
    /\ committed = <<>>
    /\ SchemaEngineIdle
    /\ \E rows \in SeqsOf({Some(r) : r \in 1..MaxRows}, 0, 1),
          schema \in Schemas, config \in [use_move_stable_row_ids : BOOLEAN, storage_format : {None}] :
          LET created == build_manifest(
                  [kind |-> "Overwrite",
                   fragments |-> [i \in DOMAIN rows |->
                                     Fragment(0, <<1, i>>, rows[i])],
                   schema |-> schema], None, <<>>, config)
          IN /\ manifest = created.manifest
             /\ indices = created.indices
    /\ \E t1 \in AppendTransactions(1, 1), t2 \in AppendTransactions(2, 1) :
          pending = {t1, t2}

\* The commit of a pending transaction: it is checked against the
\* transactions committed since its read_version, then its manifest is built
\* on the latest one.
Commit ==
    \E t \in pending :
        /\ \A i \in DOMAIN committed :
              ~conflicts_with(t.operation, committed[i].operation)
        /\ LET config == [storage_format |-> None, use_move_stable_row_ids |->
                              uses_move_stable_row_ids(manifest[1])]
               r == build_manifest(t.operation, manifest, indices, config)
           IN /\ r.status = "Ok"
              /\ manifest' = r.manifest
              /\ indices' = r.indices
        /\ pending' = pending \ {t}
        /\ committed' = Append(committed, t)
        /\ UNCHANGED <<last, hist>>
        /\ UNCHANGED schema_vars

NextConcurrent == Commit

SpecConcurrent == InitConcurrent /\ [][NextConcurrent]_vars

(* ------------------------------------ operations on columns and indices *)

\* The data files a writer lays a fragment out in, by their fields: one file
\* for both fields, one file per field, or field 0 only (field 1 is all
\* null).
FileLayouts == {<< <<0, 1>> >>, << <<0>>, <<1>> >>, << <<0>> >>}

\* The fragments written with the layouts, not yet assigned an id.
LaidOutFragments(layouts) ==
    [i \in DOMAIN layouts |->
        [Fragment(0, <<NextVersion, i>>, Some(1)) EXCEPT
            !.files = [k \in DOMAIN layouts[i] |->
                DataFile(<<NextVersion, 2 * i + k>>, layouts[i][k], 2, 0,
                         Some(1))]]]

CurrentSchema == IF manifest = None THEN {} ELSE manifest[1].schema

\* The writers of this specification do not ask for stable row ids.
PlainConfig == [use_move_stable_row_ids |-> FALSE, storage_format |-> None]

\* An Overwrite with one or two fragments, of a schema that has the fields of
\* their files.
OverwriteColumns ==
    \E layouts \in SeqsOf(FileLayouts, 1, MaxNewFragments), schema \in {{0, 1}, {0}} :
        /\ \A i \in DOMAIN layouts : \A k \in DOMAIN layouts[i] :
              Range(layouts[i][k]) \subseteq schema
        /\ Apply([kind |-> "Overwrite",
                  fragments |-> LaidOutFragments(layouts),
                  schema |-> schema], PlainConfig)

\* The indices a CreateIndex may bring: one over field 0 (no bitmap, the first
\* fragment, or all fragments), one over field 1 (all fragments), and the
\* fragment-reuse system index (over field 1, covering no fragment).
IndexChoices ==
    LET first == IF CurrentIds = {} THEN {}
                 ELSE {CHOOSE id \in CurrentIds : \A o \in CurrentIds : id <= o}
        idx0 == {[uuid |-> <<NextVersion, 0>>, name |-> "idx0", fields |-> {0},
                  fragment_bitmap |-> b] :
                    b \in {None, Some(first), Some(CurrentIds)}}
        idx1 == {[uuid |-> <<NextVersion, 1>>, name |-> "idx1", fields |-> {1},
                  fragment_bitmap |-> Some(CurrentIds)]}
        reuse == {[uuid |-> <<NextVersion, 2>>, name |-> "__lance_frag_reuse",
                   fields |-> {1}, fragment_bitmap |-> Some({})]}
    IN {<<x>> : x \in idx0} \cup {<<x, y>> : x \in idx0, y \in idx1}
          \cup {<<x, z>> : x \in idx0, z \in reuse}
          \cup {<<x, y, z>> : x \in idx0, y \in idx1, z \in reuse}

CreateIndices ==
    \E new_indices \in IndexChoices :
        Apply([kind |-> "CreateIndex", new_indices |-> new_indices,
               removed_indices |-> <<>>], PlainConfig)

\* A Merge that adds field 2, which the schema does not have yet, in a new
\* data file of every fragment; its schema keeps the fields or drops field 0.
Merge ==
    \E schema \in {CurrentSchema \cup {2}, (CurrentSchema \ {0}) \cup {2}} :
        /\ 2 \notin CurrentSchema
        /\ Apply([kind |-> "Merge", schema |-> schema,
               fragments |->
                   [i \in DOMAIN CurrentFragments |->
                       [CurrentFragments[i] EXCEPT !.files =
                           Append(@, DataFile(<<NextVersion, i>>, <<2>>, 2, 0,
                                              Some(1)))]]],
                 PlainConfig)

\* A Project onto some of the fields of the schema.
Project ==
    \E schema \in SUBSET CurrentSchema \ {{}} :
        Apply([kind |-> "Project", schema |-> schema], PlainConfig)

\* The new data file of a replacement: written for this transaction, for
\* field 0, field 1 or both, in the file version of the writers or the next
\* minor one.
NewDataFiles(i) ==
    {DataFile(<<NextVersion, i>>, fields, 2, minor, Some(1)) :
        fields \in {<<0>>, <<1>>, <<0, 1>>}, minor \in {0, 1}}

\* The replacements of a DataReplacement: one, with a new file or with a file
\* the fragment already holds, or two on different fragments; a fragment_id
\* may name a fragment the dataset does not hold.
ReplacementChoices ==
    LET ids == CurrentIds \cup {AbsentId}
        held(id) == IF id \in CurrentIds THEN Range(OldFragment(id).files)
                    ELSE {}
    IN {<< <<id, f>> >> : id \in ids, f \in NewDataFiles(1)}
       \cup UNION {{<< <<id, f>> >> : f \in held(id)} : id \in ids}
       \cup {<< <<p[1], fg[1]>>, <<p[2], fg[2]>> >> :
                p \in ids \X ids,
                fg \in {h \in NewDataFiles(1) \X NewDataFiles(2) :
                           /\ h[1].file_minor_version = 0
                           /\ h[2].file_minor_version = 0
                           /\ h[2].fields \in {h[1].fields, <<1>>}}}

DataReplacement ==
    \E replacements \in ReplacementChoices :
        Apply([kind |-> "DataReplacement", replacements |-> replacements],
              PlainConfig)

\* An Update that rewrites one fragment in place, of some fields or of none.
UpdateFields ==
    \E id \in CurrentIds, fields_modified \in {{}, {0}, {1}} :
        Apply([kind |-> "Update", removed_fragment_ids |-> <<>>,
               updated_fragments |-> <<WithDeletionFile(id)>>,
               new_fragments |-> <<>>,
               fields_modified |-> fields_modified], PlainConfig)

NextColumns ==
    \/ OverwriteColumns
    \/ CreateIndices
    \/ Delete
    \/ Merge
    \/ Project
    \/ DataReplacement
    \/ UpdateFields
    \/ Publish

SpecColumns == Init /\ [][NextColumns]_vars

(* --------------------------------- one call, of any operation and config *)

\* A fragment a writer wrote in the file version <<major, minor>>.
VersionedFragment(path, version) ==
    [Fragment(0, path, Some(1)) EXCEPT
        !.files = <<DataFile(path, <<0, 1>>, version[1], version[2], Some(1))>>]

\* The file versions of the writers: 2.0 and 2.1.
FileVersions == {<<2, 0>>, <<2, 1>>}

\* An operation of every type, on the fragments of the current dataset.
RequestOperations ==
    LET written == {<<>>} \cup {<<VersionedFragment(<<NextVersion, 1>>, v)>> :
                                   v \in FileVersions}
        named == IF CurrentFragments = <<>> THEN <<>>
                 ELSE <<CurrentFragments[1]>>
    IN {[kind |-> "Append", fragments |-> f] : f \in written}
       \cup {[kind |-> "Overwrite", fragments |-> f, schema |-> {0, 1}] :
                f \in written}
       \cup {[kind |-> "Delete", updated_fragments |-> <<>>,
              deleted_fragment_ids |-> [i \in DOMAIN named |-> named[i].id]],
             [kind |-> "Update", removed_fragment_ids |-> <<>>,
              updated_fragments |-> named, new_fragments |-> <<>>,
              fields_modified |-> {0}],
             [kind |-> "CreateIndex", removed_indices |-> <<>>,
              new_indices |-> <<[uuid |-> NextVersion, name |-> "idx",
                                 fields |-> {0}, fragment_bitmap |-> None]>>],
             [kind |-> "ReserveFragments", num_fragments |-> 1],
             [kind |-> "Merge", fragments |-> CurrentFragments,
              schema |-> {0, 1, 2}],
             [kind |-> "Project", schema |-> {0}],
             [kind |-> "UpdateConfig", upsert_values |-> None,
              delete_keys |-> None, schema_metadata |-> None,
              field_metadata |-> None],
             [kind |-> "Restore", version |-> 1],
             [kind |-> "UpdateMemWalState",
              added |-> {[id |-> 1, state |-> "Open"]},
              updated |-> {}, removed |-> {}]}
       \cup {[kind |-> "Rewrite", rewritten_indices |-> <<>>,
              frag_reuse_index |-> None,
              groups |-> <<[old_fragments |-> named, new_fragments |-> f]>>] :
                f \in written \ {<<>>}}
       \cup {[kind |-> "DataReplacement",
              replacements |-> [i \in DOMAIN named |->
                  <<named[i].id,
                    DataFile(<<NextVersion, 1>>, <<0, 1>>, v[1], v[2], Some(1))>>]] :
                v \in FileVersions}

\* What the caller may ask for: stable row ids or not, a data storage version
\* or none.
RequestConfigs ==
    [use_move_stable_row_ids : BOOLEAN,
     storage_format : {None} \cup {Some(v) : v \in FileVersions}]

\* No dataset, or the dataset an Overwrite created, with or without stable
\* row ids, of no fragment or of one.
InitRequest ==
    /\ hist = NoHistory
    /\ last = Idle
    /\ pending = {}
    /\ committed = <<>>
    /\ indices = <<>>
    /\ SchemaEngineIdle
    /\ \/ manifest = None
       \/ \E v \in FileVersions, n \in 0..1, stable \in BOOLEAN :
             manifest = build_manifest(
                 [kind |-> "Overwrite", schema |-> {0, 1},
                  fragments |-> [i \in 1..n |-> VersionedFragment(<<1, i>>, v)]],
                 None, <<>>,
                 [use_move_stable_row_ids |-> stable,
                  storage_format |-> None]).manifest

\* One call of build_manifest.
Request ==
    \E operation \in RequestOperations, config \in RequestConfigs :
        Apply(operation, config)

NextRequest == Request

SpecRequest == InitRequest /\ [][NextRequest]_vars

(* ------------------------------------------------------ validate_operation *)

\* schema_fragments_valid: every fragment has, in some data file, every field
\* of the schema.
schema_fragments_valid(schema, fragments) ==
    IF \A i \in DOMAIN fragments : \A field \in schema :
          \E k \in DOMAIN fragments[i].files :
              field \in Range(fragments[i].files[k].fields)
    THEN "Ok" ELSE "InvalidInput"

\* validate_operation.
validate_operation(current_manifest, operation) ==
    IF current_manifest = None
    THEN IF /\ operation.kind = "Overwrite"
            /\ operation.config_upsert_values = None
         THEN schema_fragments_valid(operation.schema, operation.fragments)
         ELSE "InvalidInput"
    ELSE CASE operation.kind = "Append" ->
                schema_fragments_valid(current_manifest[1].schema,
                                       operation.fragments)
           [] operation.kind = "Project" ->
                schema_fragments_valid(operation.schema,
                                       current_manifest[1].fragments)
           [] operation.kind = "Merge" ->
                schema_fragments_valid(operation.schema, operation.fragments)
           [] /\ operation.kind = "Overwrite"
              /\ operation.config_upsert_values = None ->
                schema_fragments_valid(operation.schema, operation.fragments)
           [] operation.kind = "Update" ->
                IF schema_fragments_valid(current_manifest[1].schema,
                                          operation.updated_fragments) # "Ok"
                THEN "InvalidInput"
                ELSE schema_fragments_valid(current_manifest[1].schema,
                                            operation.new_fragments)
           [] OTHER -> "Ok"

\* A fragment a writer wrote with one data file of the fields given.
FragmentOfFields(path, fields) ==
    [Fragment(0, path, Some(1)) EXCEPT
        !.files = <<DataFile(path, fields, 2, 0, Some(1))>>]

\* The operations validated: Overwrites of every schema, with and without
\* config_upsert_values, of fragments that hold every field or lack one; and
\* operations of the other kinds.
ValidatedOperations ==
    LET written == {<<>>} \cup {<<FragmentOfFields(<<NextVersion, 1>>, fields)>> :
                                   fields \in {<<0>>, <<0, 1>>}}
    IN {[kind |-> "Overwrite", fragments |-> f, schema |-> schema,
         config_upsert_values |-> c] :
            f \in written, schema \in {{0}, {0, 1}},
            c \in {None, Some([k \in {"k"} |-> "v"])}}
       \cup {[kind |-> "Append", fragments |-> f] : f \in written}
       \cup {[kind |-> "Merge", fragments |-> f, schema |-> {0, 1}] :
                f \in written}
       \cup {[kind |-> "Update", removed_fragment_ids |-> <<>>,
              updated_fragments |-> <<>>, new_fragments |-> f,
              fields_modified |-> {}] : f \in written}
       \cup {[kind |-> "Project", schema |-> {0}],
             [kind |-> "ReserveFragments", num_fragments |-> 1]}

\* One call of validate_operation on the current manifest: `last` holds what
\* it was given and what it returned.
Validate ==
    \E operation \in ValidatedOperations :
        /\ last.status = "None"
        /\ last' = [operation |-> operation, config |-> PlainConfig,
                    current_manifest |-> manifest, current_indices |-> indices,
                    hist |-> hist,
                    status |-> validate_operation(manifest, operation),
                    manifest |-> None, indices |-> indices]
        /\ UNCHANGED <<manifest, indices, hist, pending, committed>>
        /\ UNCHANGED schema_vars

NextValidate == Validate

SpecValidate == InitRequest /\ [][NextValidate]_vars

(* --------------------------------------------------------- schema engine *)

\* Field (lance_core::datatypes::Field): a node of the schema tree.  -1 is
\* the id of a field no id was assigned to yet.
Field(id, name, logical_type, nullable, children) ==
    [id |-> id, name |-> name, logical_type |-> logical_type,
     nullable |-> nullable, children |-> children]

\* Schema: the top-level fields, in order, and the metadata (a map from keys
\* to values, here a function).
Schema(fields, metadata) == [fields |-> fields, metadata |-> metadata]

\* The names of the two virtual columns.
ROW_ID == "_rowid"
ROW_ADDR == "_rowaddr"

\* The position of the first field of the list with the name, 0 if there is
\* none (fields.iter().find(|f| f.name == name), Field::child).
PositionOf(fields, name) ==
    IF \E i \in DOMAIN fields : fields[i].name = name
    THEN CHOOSE i \in DOMAIN fields :
            /\ fields[i].name = name
            /\ \A j \in 1..(i - 1) : fields[j].name # name
    ELSE 0

\* Schema::field for a name of one segment.
SchemaField(self, name) ==
    IF PositionOf(self.fields, name) = 0 THEN None
    ELSE Some(self.fields[PositionOf(self.fields, name)])

\* SchemaFieldIterPreOrder: every field, the parent before its children,
\* siblings left to right.
RECURSIVE fields_pre_order(_)
fields_pre_order(fields) ==
    IF fields = <<>> THEN <<>>
    ELSE <<Head(fields)>> \o fields_pre_order(Head(fields).children)
                          \o fields_pre_order(Tail(fields))

\* Schema::field_ids.
field_ids(self) ==
    [i \in DOMAIN fields_pre_order(self.fields) |->
        fields_pre_order(self.fields)[i].id]

\* Field::max_id: the largest id of the field and its descendants.
RECURSIVE max_id(_)
max_id(f) ==
    SetMax({f.id} \cup {max_id(f.children[i]) : i \in DOMAIN f.children})

\* Schema::max_field_id.
max_field_id(self) ==
    IF self.fields = <<>> THEN None
    ELSE Some(SetMax({max_id(self.fields[i]) : i \in DOMAIN self.fields}))

\* Field::set_id over a list of fields: every field without an id takes the
\* seed and advances it, the parent before its children.
RECURSIVE set_id(_, _)
set_id(fields, id_seed) ==
    IF fields = <<>> THEN [fields |-> <<>>, id_seed |-> id_seed]
    ELSE LET f == Head(fields)
             id == IF f.id = -1 THEN id_seed ELSE f.id
             seed == IF f.id = -1 THEN id_seed + 1 ELSE id_seed
             below == set_id(f.children, seed)
             rest == set_id(Tail(fields), below.id_seed)
         IN [fields |-> <<[f EXCEPT !.id = id, !.children = below.fields]>>
                           \o rest.fields,
             id_seed |-> rest.id_seed]

\* set_field_id starting right after max_existing_id, whatever ids the schema
\* holds.
set_field_id_after_max_existing(self, max_existing_id) ==
    [self EXCEPT !.fields =
        set_id(self.fields,
               (IF max_existing_id = None THEN -1 ELSE max_existing_id[1]) + 1).fields]

\* set_field_id starting right after the largest id of the schema, whatever
\* max_existing_id is.
set_field_id_after_schema_max(self, max_existing_id) ==
    [self EXCEPT !.fields =
        set_id(self.fields,
               (IF max_field_id(self) = None THEN -1
                ELSE max_field_id(self)[1]) + 1).fields]

\* Schema::set_field_id.
set_field_id(self, max_existing_id) ==
    LET schema_max_id == IF max_field_id(self) = None THEN -1
                         ELSE max_field_id(self)[1]
        max_existing == IF max_existing_id = None THEN -1
                        ELSE max_existing_id[1]
        current_id == (IF schema_max_id > max_existing THEN schema_max_id
                       ELSE max_existing) + 1
    IN [self EXCEPT !.fields = set_id(self.fields, current_id).fields]

\* Field::reset_id over a list of fields: no field keeps its id.
RECURSIVE reset_id(_)
reset_id(fields) ==
    [i \in DOMAIN fields |->
        [fields[i] EXCEPT !.id = -1, !.children = reset_id(fields[i].children)]]

\* Field::merge: the children of two struct fields are merged by name, the
\* ones only the other has are added at the end; any other field stays as it
\* is.
RECURSIVE merge_field(_, _)
RECURSIVE merge_children(_, _)
merge_field(self, other) ==
    IF self.logical_type = "struct" /\ other.logical_type = "struct"
    THEN [self EXCEPT !.children = merge_children(self.children, other.children)]
    ELSE self

merge_children(children, other_children) ==
    IF other_children = <<>> THEN children
    ELSE LET other_child == Head(other_children)
             i == PositionOf(children, other_child.name)
         IN merge_children(
                IF i = 0 THEN Append(children, other_child)
                ELSE [children EXCEPT ![i] = merge_field(children[i], other_child)],
                Tail(other_children))

\* The second loop of Schema::merge: the top-level fields of the other schema
\* that the merged list has no field of the same name for are added.
RECURSIVE add_new_fields(_, _)
add_new_fields(merged_fields, other_fields) ==
    IF other_fields = <<>> THEN merged_fields
    ELSE add_new_fields(
            IF \E i \in DOMAIN merged_fields :
                  merged_fields[i].name = Head(other_fields).name
            THEN merged_fields
            ELSE Append(merged_fields, Head(other_fields)),
            Tail(other_fields))

\* The metadata of the two schemas chained into one map, the other's last.
merge_metadata(metadata, other_metadata) ==
    [k \in DOMAIN metadata \cup DOMAIN other_metadata |->
        IF k \in DOMAIN other_metadata THEN other_metadata[k] ELSE metadata[k]]

\* Schema::merge adding every top-level field of the other schema.
merge_adding_all(self, other) ==
    Schema(self.fields \o reset_id(other.fields),
           merge_metadata(self.metadata, other.metadata))

\* Schema::merge.
merge(self, other) ==
    LET reset == Schema(reset_id(other.fields), other.metadata)
        merged_fields ==
            [i \in DOMAIN self.fields |->
                IF SchemaField(reset, self.fields[i].name) # None
                THEN merge_field(self.fields[i],
                                 SchemaField(reset, self.fields[i].name)[1])
                ELSE self.fields[i]]
    IN Schema(add_new_fields(merged_fields, reset.fields),
              merge_metadata(self.metadata, reset.metadata))

\* impl PartialEq for Schema: the fields are compared, the metadata is not.
SchemaEq(self, other) == self.fields = other.fields

\* Field::project: the field with the sub-tree the path leads to; a path that
\* is empty keeps every child.
RECURSIVE project_field(_, _)
project_field(f, path_components) ==
    IF path_components = <<>> THEN [status |-> "Ok", field |-> f]
    ELSE LET i == PositionOf(f.children, Head(path_components)) IN
         IF i = 0 THEN [status |-> "Schema", field |-> f]
         ELSE LET below == project_field(f.children[i], Tail(path_components))
              IN [status |-> below.status,
                  field |-> [f EXCEPT !.children = <<below.field>>]]

\* The loop of do_project with every projected field pushed as a candidate of
\* its own.
RECURSIVE project_columns_pushing(_, _, _, _)
project_columns_pushing(self, columns, err_on_missing, candidates) ==
    IF columns = <<>>
    THEN [status |-> "Ok", schema |-> Some(Schema(candidates, self.metadata))]
    ELSE LET first == Head(columns)[1]
             found == SchemaField(self, first)
         IN IF found # None
            THEN LET projected == project_field(found[1], Tail(Head(columns)))
                 IN IF projected.status # "Ok"
                    THEN [status |-> projected.status, schema |-> None]
                    ELSE project_columns_pushing(
                             self, Tail(columns), err_on_missing,
                             Append(candidates, projected.field))
            ELSE IF err_on_missing /\ first # ROW_ID /\ first # ROW_ADDR
            THEN [status |-> "Schema", schema |-> None]
            ELSE project_columns_pushing(self, Tail(columns),
                                         err_on_missing, candidates)

\* The loop of do_project.  A column is the list of the segments of its
\* dotted path.
RECURSIVE project_columns(_, _, _, _)
project_columns(self, columns, err_on_missing, candidates) ==
    IF columns = <<>>
    THEN [status |-> "Ok", schema |-> Some(Schema(candidates, self.metadata))]
    ELSE LET first == Head(columns)[1]
             found == SchemaField(self, first)
         IN IF found # None
            THEN LET projected == project_field(found[1], Tail(Head(columns)))
                     i == PositionOf(candidates, first)
                 IN IF projected.status # "Ok"
                    THEN [status |-> projected.status, schema |-> None]
                    ELSE project_columns(
                             self, Tail(columns), err_on_missing,
                             IF i # 0
                             THEN [candidates EXCEPT
                                      ![i] = merge_field(candidates[i],
                                                         projected.field)]
                             ELSE Append(candidates, projected.field))
            ELSE IF err_on_missing /\ first # ROW_ID /\ first # ROW_ADDR
            THEN [status |-> "Schema", schema |-> None]
            ELSE project_columns(self, Tail(columns), err_on_missing, candidates)

\* Schema::do_project.
do_project(self, columns, err_on_missing) ==
    project_columns(self, columns, err_on_missing, <<>>)

\* Schema::project.
project(self, columns) == do_project(self, columns, TRUE)

\* The position of the last field of the list with the name, 0 if there is
\* none: the entry the map from names to fields and positions keeps.
field_mapping(fields, name) ==
    IF \E i \in DOMAIN fields : fields[i].name = name
    THEN CHOOSE i \in DOMAIN fields :
            /\ fields[i].name = name
            /\ \A j \in (i + 1)..Len(fields) : fields[j].name # name
    ELSE 0

RECURSIVE compare_fields(_, _, _)
RECURSIVE field_compare_with_options(_, _, _)
RECURSIVE compare_expected(_, _, _, _)

\* Field::compare_with_options: the name, the type, the nullability and the
\* children; the id is not compared.
field_compare_with_options(self, expected, options) ==
    /\ self.name = expected.name
    /\ self.logical_type = expected.logical_type
    /\ self.nullable = expected.nullable
    /\ compare_fields(self.children, expected.children, options)

\* The loop of compare_fields over the expected fields with a missing field
\* let through whether or not it is nullable.
RECURSIVE compare_expected_any_missing(_, _, _, _)
compare_expected_any_missing(fields, expected, options, cumulative_position) ==
    IF expected = <<>> THEN TRUE
    ELSE LET pos == field_mapping(fields, Head(expected).name) IN
         IF pos # 0
         THEN /\ field_compare_with_options(fields[pos], Head(expected), options)
              /\ ~(~options.ignore_field_order /\ pos - 1 < cumulative_position)
              /\ compare_expected_any_missing(fields, Tail(expected), options,
                                              pos - 1)
         ELSE /\ options.allow_missing_if_nullable
              /\ compare_expected_any_missing(fields, Tail(expected), options,
                                              cumulative_position)

\* The loop of compare_fields over the expected fields.  Positions count
\* from 0.
compare_expected(fields, expected, options, cumulative_position) ==
    IF expected = <<>> THEN TRUE
    ELSE LET pos == field_mapping(fields, Head(expected).name) IN
         IF pos # 0
         THEN /\ field_compare_with_options(fields[pos], Head(expected), options)
              /\ ~(~options.ignore_field_order /\ pos - 1 < cumulative_position)
              /\ compare_expected(fields, Tail(expected), options, pos - 1)
         ELSE /\ options.allow_missing_if_nullable
              /\ Head(expected).nullable
              /\ compare_expected(fields, Tail(expected), options,
                                  cumulative_position)

\* compare_fields.
compare_fields(fields, expected, options) ==
    IF options.allow_missing_if_nullable \/ options.ignore_field_order
    THEN /\ \A i \in DOMAIN fields :
               fields[i].name \in {expected[j].name : j \in DOMAIN expected}
         /\ compare_expected(fields, expected, options, 0)
    ELSE /\ Len(fields) = Len(expected)
         /\ \A i \in DOMAIN fields :
               field_compare_with_options(fields[i], expected[i], options)

\* Schema::compare_with_options.
compare_with_options(self, expected, options) ==
    /\ compare_fields(self.fields, expected.fields, options)
    /\ ~options.compare_metadata \/ self.metadata = expected.metadata

\* Field::resolve below a field: the fields from the field down to the one
\* the path names, None if a segment is missing.
RECURSIVE resolve_field(_, _)
resolve_field(f, split) ==
    IF split = <<>> THEN Some(<<f>>)
    ELSE LET i == PositionOf(f.children, Head(split)) IN
         IF i = 0 THEN None
         ELSE LET below == resolve_field(f.children[i], Tail(split)) IN
              IF below = None THEN None ELSE Some(<<f>> \o below[1])

\* Schema::resolve.
resolve(self, column) ==
    IF SchemaField(self, Head(column)) = None THEN None
    ELSE resolve_field(SchemaField(self, Head(column))[1], Tail(column))

\* Projection::empty.
empty(base) ==
    [base |-> base, field_ids |-> {}, with_row_id |-> FALSE,
     with_row_addr |-> FALSE]

\* Projection::union_schema.
union_schema(self, other) ==
    LET pre == fields_pre_order(other.fields)
        named(name) == \E i \in DOMAIN pre : pre[i].id < 0 /\ pre[i].name = name
    IN [self EXCEPT
          !.field_ids = @ \cup {pre[i].id : i \in {j \in DOMAIN pre : pre[j].id >= 0}},
          !.with_row_id = @ \/ named(ROW_ID),
          !.with_row_addr = @ \/ named(ROW_ADDR)]

\* Projection::full.
full(base) == union_schema(empty(base), base)

\* Projection::union_column.
union_column(self, column, on_missing) ==
    IF column = <<ROW_ID>>
    THEN [status |-> "Ok", projection |-> [self EXCEPT !.with_row_id = TRUE]]
    ELSE IF column = <<ROW_ADDR>>
    THEN [status |-> "Ok", projection |-> [self EXCEPT !.with_row_addr = TRUE]]
    ELSE IF resolve(self.base, column) # None
    THEN [status |-> "Ok",
          projection |->
              [self EXCEPT !.field_ids =
                  @ \cup {resolve(self.base, column)[1][i].id :
                             i \in DOMAIN resolve(self.base, column)[1]}]]
    ELSE IF on_missing = "Error"
    THEN [status |-> "InvalidInput", projection |-> self]
    ELSE [status |-> "Ok", projection |-> self]

\* Projection::union_columns.
RECURSIVE union_columns(_, _, _)
union_columns(self, columns, on_missing) ==
    IF columns = <<>> THEN [status |-> "Ok", projection |-> self]
    ELSE LET first == union_column(self, Head(columns), on_missing) IN
         IF first.status # "Ok" THEN first
         ELSE union_columns(first.projection, Tail(columns), on_missing)

\* The predicates on fields the model passes to union_predicate and
\* subtract_predicate.
Holds(predicate, f) ==
    CASE predicate = "nullable" -> f.nullable
      [] predicate = "leaf" -> f.children = <<>>

\* The ids of the fields of the base schema that satisfy the predicate.
Satisfying(self, predicate) ==
    {fields_pre_order(self.base.fields)[i].id :
        i \in {j \in DOMAIN fields_pre_order(self.base.fields) :
                  Holds(predicate, fields_pre_order(self.base.fields)[j])}}

\* Projection::union_predicate.
union_predicate(self, predicate) ==
    [self EXCEPT !.field_ids = @ \cup Satisfying(self, predicate)]

\* Projection::subtract_predicate.
subtract_predicate(self, predicate) ==
    [self EXCEPT !.field_ids = @ \ Satisfying(self, predicate)]

\* Projection::intersect.
intersect(self, other) ==
    [self EXCEPT !.field_ids = @ \cap other.field_ids,
                 !.with_row_id = @ /\ other.with_row_id,
                 !.with_row_addr = @ /\ other.with_row_addr]

\* Projection::union_projection.
union_projection(self, other) ==
    [self EXCEPT !.field_ids = @ \cup other.field_ids,
                 !.with_row_id = @ \/ other.with_row_id,
                 !.with_row_addr = @ \/ other.with_row_addr]

\* Projection::subtract_projection.
subtract_projection(self, other) ==
    [self EXCEPT !.field_ids = @ \ other.field_ids,
                 !.with_row_addr = @ /\ ~other.with_row_addr,
                 !.with_row_id = @ /\ ~other.with_row_id]

\* Projection::subtract_schema.
subtract_schema(self, other) ==
    LET pre == fields_pre_order(other.fields)
        named(name) == \E i \in DOMAIN pre : pre[i].id < 0 /\ pre[i].name = name
    IN [self EXCEPT
          !.field_ids = @ \ {pre[i].id : i \in {j \in DOMAIN pre : pre[j].id >= 0}},
          !.with_row_id = @ /\ ~named(ROW_ID),
          !.with_row_addr = @ /\ ~named(ROW_ADDR)]

(* ------------------------------------------------ schemas and their calls *)

\* The number of columns one call of project names.
MaxColumns == 3
\* The largest max_existing_id a call of set_field_id is given.
MaxExistingId == 7
\* The largest field id an evolving schema assigns.
MaxFieldId == 7

\* The schema {a: int, b: {f1: {g: utf8?}?, f2: int}?, c: int?} as imported,
\* field by field, with the ids set_field_id(None) gave them.
FieldA == Field(0, "a", "int", FALSE, <<>>)
FieldG == Field(3, "g", "utf8", TRUE, <<>>)
FieldF1 == Field(2, "f1", "struct", TRUE, <<FieldG>>)
FieldF2 == Field(4, "f2", "int", FALSE, <<>>)
FieldB(children) == Field(1, "b", "struct", TRUE, children)
FieldC == Field(5, "c", "int", TRUE, <<>>)

\* Fields of columns yet to be added, as another import numbered them.
FieldD == Field(0, "d", "int", FALSE, <<>>)
FieldE == Field(1, "e", "utf8", TRUE, <<>>)
FieldBF3 == Field(0, "b", "struct", TRUE, <<Field(1, "f3", "int", FALSE, <<>>)>>)

NoMetadata == <<>>
SomeMetadata == [k \in {"k"} |-> "v"]

\* The lists of one to three of the fields, no two of the same name.
FieldLists(S) ==
    {<<>>} \cup {<<f>> : f \in S}
           \cup {<<f, g>> : f \in S, g \in S}
           \cup {<<f, g, h>> : f \in S, g \in S, h \in S}

DistinctNames(fields) ==
    \A i \in DOMAIN fields, j \in DOMAIN fields :
        fields[i].name = fields[j].name => i = j

\* The schema above, parts of it, and the same with fields in another order.
InputSchemas ==
    {Schema(fields, NoMetadata) :
        fields \in {l \in FieldLists({FieldA, FieldB(<<FieldF1, FieldF2>>),
                                      FieldB(<<FieldF2>>),
                                      FieldB(<<FieldF2, FieldF1>>), FieldC}) :
                       DistinctNames(l)}}

\* Schemas of columns to add.
NewSchemas ==
    {Schema(fields, SomeMetadata) :
        fields \in {l \in FieldLists({FieldD, FieldE, FieldBF3}) :
                       DistinctNames(l) /\ Len(l) \in 1..2}}

\* The paths of the columns of the schemas above, and two of no column.
ColumnPaths ==
    {<<"a">>, <<"b">>, <<"b", "f1">>, <<"b", "f1", "g">>, <<"b", "f2">>,
     <<"c">>, <<"z">>, <<"a", "z">>}

\* The lists of up to MaxColumns different columns.
RECURSIVE ColumnLists(_)
ColumnLists(n) ==
    IF n = 0 THEN {<<>>}
    ELSE ColumnLists(n - 1)
         \cup {Append(l, c) : l \in {k \in ColumnLists(n - 1) : Len(k) = n - 1},
                              c \in ColumnPaths} 

DistinctColumns(columns) ==
    \A i \in DOMAIN columns, j \in DOMAIN columns :
        columns[i] = columns[j] => i = j

SchemaCompareOptions ==
    [compare_metadata : BOOLEAN, allow_missing_if_nullable : BOOLEAN,
     ignore_field_order : BOOLEAN]

\* No transaction is in flight while the schema engine is exercised.
TransactionsIdle ==
    /\ manifest = None
    /\ indices = <<>>
    /\ hist = NoHistory
    /\ last = Idle
    /\ pending = {}
    /\ committed = <<>>

InitSchema ==
    /\ TransactionsIdle
    /\ cur_schema \in InputSchemas
    /\ high_water = -1
    /\ cur_projection = None
    /\ schema_call = NoSchemaCall

\* merge, then set_field_id on the merged schema.
CallSetFieldId ==
    \E other \in NewSchemas \cup {Schema(<<>>, NoMetadata)},
       max_existing_id \in {None} \cup {Some(id) : id \in 0..MaxExistingId} :
        /\ schema_call = NoSchemaCall
        /\ schema_call' =
              [fn |-> "set_field_id", self |-> merge(cur_schema, other),
               max_existing_id |-> max_existing_id,
               result |-> set_field_id(merge(cur_schema, other), max_existing_id)]
        /\ UNCHANGED <<cur_schema, high_water, cur_projection>>
        /\ UNCHANGED transaction_vars

CallProject ==
    \E columns \in {l \in ColumnLists(MaxColumns) : DistinctColumns(l)} :
        /\ schema_call = NoSchemaCall
        /\ schema_call' =
              [fn |-> "project", self |-> cur_schema, columns |-> columns,
               result |-> project(cur_schema, columns)]
        /\ UNCHANGED <<cur_schema, high_water, cur_projection>>
        /\ UNCHANGED transaction_vars

CallMerge ==
    \E other \in InputSchemas \cup NewSchemas :
        /\ schema_call = NoSchemaCall
        /\ schema_call' =
              [fn |-> "merge", self |-> cur_schema, other |-> other,
               result |-> merge(cur_schema, other)]
        /\ UNCHANGED <<cur_schema, high_water, cur_projection>>
        /\ UNCHANGED transaction_vars

CallCompare ==
    \E expected \in InputSchemas, metadata \in {NoMetadata, SomeMetadata},
       options \in SchemaCompareOptions :
        /\ schema_call = NoSchemaCall
        /\ schema_call' =
              [fn |-> "compare_with_options", self |-> cur_schema,
               expected |-> Schema(expected.fields, metadata),
               options |-> options,
               result |-> compare_with_options(
                              cur_schema, Schema(expected.fields, metadata),
                              options)]
        /\ UNCHANGED <<cur_schema, high_water, cur_projection>>
        /\ UNCHANGED transaction_vars

NextSchema ==
    \/ CallSetFieldId
    \/ CallProject
    \/ CallMerge
    \/ CallCompare

SpecSchema == InitSchema /\ [][NextSchema]_vars

(* -------------------------------------------------------- schema evolution *)

\* The paths of the fields of a list and below it, in pre-order.
RECURSIVE PathList(_, _)
PathList(fields, prefix) ==
    IF fields = <<>> THEN <<>>
    ELSE <<Append(prefix, Head(fields).name)>>
            \o PathList(Head(fields).children, Append(prefix, Head(fields).name))
            \o PathList(Tail(fields), prefix)

IsPrefix(p, q) == Len(p) <= Len(q) /\ SubSeq(q, 1, Len(p)) = p

\* The columns that name everything but the field of path p: the fields
\* beside it and beside its ancestors.
RECURSIVE ColumnsWithout(_, _, _)
ColumnsWithout(fields, prefix, p) ==
    IF fields = <<>> THEN <<>>
    ELSE LET q == Append(prefix, Head(fields).name) IN
         (IF q = p THEN <<>>
          ELSE IF IsPrefix(q, p)
          THEN ColumnsWithout(Head(fields).children, q, p)
          ELSE <<q>>)
             \o ColumnsWithout(Tail(fields), prefix, p)

\* A schema as imported (every field numbered by set_field_id(None)), the
\* high-water mark at its largest id.
InitEvolution ==
    /\ TransactionsIdle
    /\ \E fields \in {<<FieldA, FieldB(<<FieldF1, FieldF2>>)>>, <<FieldA, FieldC>>} :
          cur_schema = set_field_id(Schema(reset_id(fields), NoMetadata), None)
    /\ high_water = SetMax({-1} \cup Range(field_ids(cur_schema)))
    /\ cur_projection = None
    /\ schema_call = [fn |-> "import", added |-> Range(field_ids(cur_schema)),
                      assigned_before |-> {},
                      assigned |-> Range(field_ids(cur_schema))]

\* Columns are added: the schema is merged with the schema of the new
\* columns, and set_field_id is given the high-water mark of the dataset.
AddColumns ==
    \E other \in NewSchemas :
        LET evolved == set_field_id(merge(cur_schema, other), Some(high_water))
        IN /\ max_field_id(evolved)[1] <= MaxFieldId
           /\ cur_schema' = evolved
           /\ high_water' = SetMax({high_water, max_field_id(evolved)[1]})
           /\ schema_call' =
                 [fn |-> "add_columns",
                  added |-> Range(field_ids(evolved))
                               \ Range(field_ids(cur_schema)),
                  assigned_before |-> schema_call.assigned,
                  assigned |-> schema_call.assigned
                                  \cup Range(field_ids(evolved))]
           /\ UNCHANGED cur_projection
           /\ UNCHANGED transaction_vars

\* A column is dropped: the schema is projected on the columns that stay.
\* The high-water mark stays where it is.
DropColumn ==
    \E p \in Range(PathList(cur_schema.fields, <<>>)) :
        LET kept == project(cur_schema, ColumnsWithout(cur_schema.fields, <<>>, p))
        IN /\ kept.status = "Ok"
           /\ cur_schema' = kept.schema[1]
           /\ schema_call' =
                 [fn |-> "drop_column", added |-> {},
                  assigned_before |-> schema_call.assigned,
                  assigned |-> schema_call.assigned]
           /\ UNCHANGED <<high_water, cur_projection>>
           /\ UNCHANGED transaction_vars

NextEvolution ==
    \/ AddColumns
    \/ DropColumn

SpecEvolution == InitEvolution /\ [][NextEvolution]_vars

(* -------------------------------------------------------------- projections *)

\* The base schema of the projections, and the schema of a later version of
\* the same dataset, with a column "d" added.
BaseSchema == Schema(<<FieldA, FieldB(<<FieldF1, FieldF2>>), FieldC>>, NoMetadata)

EvolvedSchema == set_field_id(merge(BaseSchema, Schema(<<FieldD>>, NoMetadata)), None)

\* The schemas union_schema and subtract_schema are given: parts of the base
\* schema, the later schema, a schema of fields without ids, the row id.
SchemaArguments ==
    {BaseSchema, EvolvedSchema,
     Schema(<<FieldB(<<FieldF2>>)>>, NoMetadata),
     Schema(<<FieldA, FieldC>>, NoMetadata),
     Schema(reset_id(<<FieldD, FieldE>>), NoMetadata),
     Schema(<<Field(-1, ROW_ID, "int", TRUE, <<>>)>>, NoMetadata)}

\* The projections of the base schema the operations on two projections are
\* given.
ProjectionArguments ==
    {empty(BaseSchema), full(BaseSchema),
     [empty(BaseSchema) EXCEPT !.field_ids = {1, 4}, !.with_row_id = TRUE],
     [empty(BaseSchema) EXCEPT !.field_ids = {0, 5}, !.with_row_addr = TRUE]}

ColumnArguments == ColumnPaths \cup {<<ROW_ID>>, <<ROW_ADDR>>}

InitProjection ==
    /\ TransactionsIdle
    /\ cur_schema = BaseSchema
    /\ high_water = -1
    /\ cur_projection \in {Some(empty(BaseSchema)), Some(full(BaseSchema))}
    /\ schema_call = NoSchemaCall

\* The result of an operation that cannot fail becomes the projection.
Becomes(fn, projection) ==
    /\ cur_projection' = Some(projection)
    /\ schema_call' = [fn |-> fn, status |-> "Ok"]
    /\ UNCHANGED <<cur_schema, high_water>>
    /\ UNCHANGED transaction_vars

\* The result of an operation that can fail becomes the projection if it did
\* not.
BecomesIfOk(fn, r) ==
    /\ cur_projection' = IF r.status = "Ok" THEN Some(r.projection)
                         ELSE cur_projection
    /\ schema_call' = [fn |-> fn, status |-> r.status]
    /\ UNCHANGED <<cur_schema, high_water>>
    /\ UNCHANGED transaction_vars

UnionColumn ==
    \E column \in ColumnArguments, on_missing \in {"Error", "Ignore"} :
        BecomesIfOk("union_column",
                    union_column(cur_projection[1], column, on_missing))

UnionColumns ==
    \E c1 \in {<<"b", "f1", "g">>, <<"c">>, <<"z">>},
       c2 \in {<<"a">>, <<"b", "f2">>, <<ROW_ADDR>>},
       on_missing \in {"Error", "Ignore"} :
        BecomesIfOk("union_columns",
                    union_columns(cur_projection[1], <<c1, c2>>, on_missing))

UnionPredicate ==
    \E predicate \in {"nullable", "leaf"} :
        Becomes("union_predicate", union_predicate(cur_projection[1], predicate))

SubtractPredicate ==
    \E predicate \in {"nullable", "leaf"} :
        Becomes("subtract_predicate",
                subtract_predicate(cur_projection[1], predicate))

Intersect ==
    \E other \in ProjectionArguments :
        Becomes("intersect", intersect(cur_projection[1], other))

UnionSchema ==
    \E other \in SchemaArguments :
        Becomes("union_schema", union_schema(cur_projection[1], other))

UnionProjection ==
    \E other \in ProjectionArguments :
        Becomes("union_projection", union_projection(cur_projection[1], other))

SubtractProjection ==
    \E other \in ProjectionArguments :
        Becomes("subtract_projection",
                subtract_projection(cur_projection[1], other))

SubtractSchema ==
    \E other \in SchemaArguments :
        Becomes("subtract_schema", subtract_schema(cur_projection[1], other))

NextProjection ==
    \/ UnionColumn
    \/ UnionColumns
    \/ UnionPredicate
    \/ SubtractPredicate
    \/ Intersect
    \/ UnionSchema
    \/ UnionProjection
    \/ SubtractProjection
    \/ SubtractSchema

SpecProjection == InitProjection /\ [][NextProjection]_vars

(* ------------------------------------------------------ import from Arrow *)

\* An Arrow field: its name, data type, nullability, whether its metadata
\* holds lance-schema:unenforced-primary-key = true, and the fields of its
\* data type (the fields of a struct, the item of a list).
ArrowField(name, data_type, nullable, primary_key, children) ==
    [name |-> name, data_type |-> data_type, nullable |-> nullable,
     primary_key |-> primary_key, children |-> children]

\* Field::try_from(&ArrowField) over a list of fields: name, type,
\* nullability and children are kept, the field has no id yet, the mark is
\* read from the metadata.
RECURSIVE field_try_from(_)
field_try_from(arrow_fields) ==
    [i \in DOMAIN arrow_fields |->
        [id |-> -1, name |-> arrow_fields[i].name,
         logical_type |-> arrow_fields[i].data_type,
         nullable |-> arrow_fields[i].nullable,
         children |-> field_try_from(arrow_fields[i].children),
         unenforced_primary_key |-> arrow_fields[i].primary_key]]

\* Field::is_leaf.
is_leaf(f) == f.children = <<>>

\* LogicalType::is_list, LogicalType::is_large_list.
is_list(logical_type) == logical_type = "list"
is_large_list(logical_type) == logical_type = "large_list"

\* Schema::unenforced_primary_key.
unenforced_primary_key(self) ==
    SelectSeq(fields_pre_order(self.fields), LAMBDA f : f.unenforced_primary_key)

\* The loop of Schema::field_ancestry_by_id: the last path of to_visit is
\* taken; it is the answer when it ends at the id, otherwise the paths to the
\* children of its last field are pushed.
RECURSIVE visit_ancestry(_, _)
visit_ancestry(to_visit, id) ==
    IF to_visit = <<>> THEN None
    ELSE LET path == to_visit[Len(to_visit)]
             field == path[Len(path)]
         IN IF field.id = id THEN Some(path)
            ELSE visit_ancestry(
                     SubSeq(to_visit, 1, Len(to_visit) - 1)
                        \o [i \in DOMAIN field.children |->
                               Append(path, field.children[i])],
                     id)

\* Schema::field_ancestry_by_id: the fields from the root to the field of
\* the id, that field included.
field_ancestry_by_id(self, id) ==
    visit_ancestry([i \in DOMAIN self.fields |-> <<self.fields[i]>>], id)

\* The loop over the ancestry of a primary key column that looks at
\* nullability only.
RECURSIVE check_ancestors_nullable_only(_)
check_ancestors_nullable_only(ancestors) ==
    IF ancestors = <<>> THEN "Ok"
    ELSE IF Head(ancestors).nullable THEN "must not be nullable"
    ELSE check_ancestors_nullable_only(Tail(ancestors))

\* The loop over the ancestry of a primary key column: the first nullable
\* field, or field of a list type, is an error.
RECURSIVE check_ancestors(_)
check_ancestors(ancestors) ==
    IF ancestors = <<>> THEN "Ok"
    ELSE IF Head(ancestors).nullable THEN "must not be nullable"
    ELSE IF is_list(Head(ancestors).logical_type)
            \/ is_large_list(Head(ancestors).logical_type)
         THEN "must not be in a list type"
    ELSE check_ancestors(Tail(ancestors))

\* The loop over the primary key columns: the first error ends it.
RECURSIVE check_primary_key(_, _)
check_primary_key(schema, pk) ==
    IF pk = <<>> THEN "Ok"
    ELSE IF ~is_leaf(Head(pk)) THEN "must be a leaf"
    ELSE LET ancestors == field_ancestry_by_id(schema, Head(pk).id)
             checked == IF ancestors = None THEN "Ok"
                        ELSE check_ancestors(ancestors[1])
         IN IF checked # "Ok" THEN checked
            ELSE check_primary_key(schema, Tail(pk))

\* impl TryFrom<&ArrowSchema> for Schema.
try_from(arrow_schema) ==
    LET schema == set_field_id(
                      Schema(field_try_from(arrow_schema.fields),
                             arrow_schema.metadata), None)
        checked == check_primary_key(schema, unenforced_primary_key(schema))
    IN IF checked = "Ok" THEN [status |-> "Ok", schema |-> Some(schema)]
       ELSE [status |-> "Err", message |-> checked, schema |-> None]

\* Arrow fields of the imports: a leaf, a struct of one leaf, a list (or
\* large list) of one item, a struct in a struct; every nullability and
\* every marking.
ArrowLeaves(name) ==
    {ArrowField(name, "int", n, k, <<>>) : n \in BOOLEAN, k \in BOOLEAN}

ArrowNested(name, data_type, children) ==
    {ArrowField(name, data_type, n, k, <<c>>) :
        n \in BOOLEAN, k \in BOOLEAN, c \in children}

ArrowFieldChoices ==
    ArrowNested("b", "struct", ArrowLeaves("f1"))
        \cup ArrowNested("l", "list", ArrowLeaves("item"))
        \cup ArrowNested("ll", "large_list", ArrowLeaves("item"))
        \cup ArrowNested("s", "struct",
                 {ArrowField("t", "struct", n, FALSE, <<c>>) :
                     n \in BOOLEAN,
                     c \in {ArrowField("u", "int", FALSE, k, <<>>) : k \in BOOLEAN}})
        \cup ArrowNested("sl", "struct",
                 {ArrowField("l", "list", FALSE, FALSE,
                             <<ArrowField("item", "int", FALSE, TRUE, <<>>)>>)})

ArrowSchemas ==
    {[fields |-> <<a>>, metadata |-> NoMetadata] : a \in ArrowLeaves("a")}
        \cup {[fields |-> <<f>>, metadata |-> NoMetadata] : f \in ArrowFieldChoices}
        \cup {[fields |-> <<a, f>>, metadata |-> NoMetadata] :
                 a \in {ArrowField("a", "int", FALSE, k, <<>>) : k \in BOOLEAN},
                 f \in ArrowFieldChoices}

InitImport ==
    /\ TransactionsIdle
    /\ SchemaEngineIdle

\* Schema::try_from(&ArrowSchema).
Import ==
    \E arrow_schema \in ArrowSchemas :
        /\ schema_call = NoSchemaCall
        /\ schema_call' = [fn |-> "try_from", arrow_schema |-> arrow_schema,
                           result |-> try_from(arrow_schema)]
        /\ UNCHANGED <<cur_schema, high_water, cur_projection>>
        /\ UNCHANGED transaction_vars

NextImport == Import

SpecImport == InitImport /\ [][NextImport]_vars

(* ----------------------------------------- protobuf form of a transaction *)

\* pb::DataFragment::from(&Fragment) and Fragment::try_from(pb::DataFragment):
\* the message of a fragment holds its id, data files, deletion file, row
\* count and row-id sequence.
DataFragmentFrom(fragment) == [data_fragment |-> fragment]
FragmentTryFrom(message) == message.data_fragment

\* Fields::from(&Schema) and Schema::from(&Fields): the fields of the schema.
FieldsFrom(schema) == [fields |-> schema]
SchemaFromFields(message) == message.fields

\* The map of a protobuf message with no entry (Default::default()).
EmptyMap == <<>>

\* impl From<&Transaction> for pb::Transaction, the operation.
OperationToPb(operation) ==
    CASE operation.kind = "Append" ->
           [kind |-> "Append",
            fragments |-> [i \in DOMAIN operation.fragments |->
                              DataFragmentFrom(operation.fragments[i])]]
      [] operation.kind = "Overwrite" ->
           [kind |-> "Overwrite",
            fragments |-> [i \in DOMAIN operation.fragments |->
                              DataFragmentFrom(operation.fragments[i])],
            schema |-> FieldsFrom(operation.schema),
            schema_metadata |-> EmptyMap,
            config_upsert_values |->
                IF operation.config_upsert_values = None THEN EmptyMap
                ELSE operation.config_upsert_values[1]]
      [] operation.kind = "ReserveFragments" ->
           [kind |-> "ReserveFragments",
            num_fragments |-> operation.num_fragments]

\* impl From<&Transaction> for pb::Transaction.
TransactionToPb(value) ==
    [read_version |-> value.read_version, uuid |-> value.uuid,
     operation |-> Some(OperationToPb(value.operation)),
     tag |-> IF value.tag = None THEN "" ELSE value.tag[1]]

\* impl TryFrom<pb::Transaction> for Transaction, the operation.
OperationFromPb(message) ==
    CASE message.kind = "Append" ->
           [kind |-> "Append",
            fragments |-> [i \in DOMAIN message.fragments |->
                              FragmentTryFrom(message.fragments[i])]]
      [] message.kind = "Overwrite" ->
           [kind |-> "Overwrite",
            fragments |-> [i \in DOMAIN message.fragments |->
                              FragmentTryFrom(message.fragments[i])],
            schema |-> SchemaFromFields(message.schema),
            config_upsert_values |->
                IF message.config_upsert_values = EmptyMap
                THEN Some(message.config_upsert_values)
                ELSE None]
      [] message.kind = "ReserveFragments" ->
           [kind |-> "ReserveFragments",
            num_fragments |-> message.num_fragments]

\* impl TryFrom<pb::Transaction> for Transaction.
TransactionFromPb(message) ==
    [read_version |-> message.read_version, uuid |-> message.uuid,
     operation |-> OperationFromPb(message.operation[1]),
     tag |-> IF message.tag = "" THEN None ELSE Some(message.tag)]

\* The transactions written: Appends, Overwrites with and without
\* config_upsert_values, ReserveFragments; with a tag and without.
WrittenTransactions ==
    LET written == {<<>>} \cup {<<FragmentOfFields(<<1, 1>>, fields)>> :
                                   fields \in {<<0>>, <<0, 1>>}}
        operations ==
            {[kind |-> "Overwrite", fragments |-> f, schema |-> schema,
              config_upsert_values |-> c] :
                 f \in written, schema \in {{0}, {0, 1}},
                 c \in {None, Some(EmptyMap), Some([k \in {"k"} |-> "v"])}}
            \cup {[kind |-> "Append", fragments |-> f] : f \in written}
            \cup {[kind |-> "ReserveFragments", num_fragments |-> n] :
                     n \in 0..1}
    IN {[read_version |-> v, uuid |-> 1, operation |-> o, tag |-> t] :
           v \in 0..1, o \in operations, t \in {None, Some("v1")}}

InitTransactionFile ==
    /\ TransactionsIdle
    /\ SchemaEngineIdle

\* A transaction is written: its message is in flight.
WriteTransaction ==
    \E transaction \in WrittenTransactions :
        /\ pending = {} /\ committed = <<>>
        /\ pending' = {[transaction |-> transaction,
                        message |-> TransactionToPb(transaction)]}
        /\ UNCHANGED <<manifest, indices, last, hist, committed>>
        /\ UNCHANGED schema_vars

\* The message is read back.
ReadTransaction ==
    \E file \in pending :
        /\ committed' = <<[written |-> file.transaction,
                           read |-> TransactionFromPb(file.message)]>>
        /\ pending' = {}
        /\ UNCHANGED <<manifest, indices, last, hist>>
        /\ UNCHANGED schema_vars

NextTransactionFile ==
    \/ WriteTransaction
    \/ ReadTransaction

SpecTransactionFile == InitTransactionFile /\ [][NextTransactionFile]_vars

(* -------------------------------------------------- equality of operations *)

\* compare_vec of impl PartialEq for RewriteGroup, on lists of fragments: the
\* same length, and every element of a is an element of b.
compare_vec(a, b) ==
    /\ Len(a) = Len(b)
    /\ \A i \in DOMAIN a : \E j \in DOMAIN b : a[i] = b[j]

\* impl PartialEq for RewriteGroup.
RewriteGroupEq(self, other) ==
    /\ compare_vec(self.old_fragments, other.old_fragments)
    /\ compare_vec(self.new_fragments, other.new_fragments)

\* compare_vec on lists of rewrite groups, whose elements are compared with
\* the equality of RewriteGroup.
compare_groups(a, b) ==
    /\ Len(a) = Len(b)
    /\ \A i \in DOMAIN a : \E j \in DOMAIN b : RewriteGroupEq(a[i], b[j])

\* impl PartialEq for Operation.
OperationEq(self, other) ==
    IF self.kind # other.kind THEN FALSE
    ELSE CASE self.kind = "Append" ->
                compare_vec(self.fragments, other.fragments)
           [] self.kind = "Delete" ->
                /\ compare_vec(self.updated_fragments, other.updated_fragments)
                /\ compare_vec(self.deleted_fragment_ids,
                               other.deleted_fragment_ids)
                /\ self.predicate = other.predicate
           [] self.kind = "Rewrite" ->
                /\ compare_groups(self.groups, other.groups)
                /\ compare_vec(self.rewritten_indices, other.rewritten_indices)
                /\ self.frag_reuse_index = other.frag_reuse_index
           [] self.kind = "ReserveFragments" ->
                self.num_fragments = other.num_fragments

\* The lists compared: of no, one or two elements out of two, the same
\* element twice included.
ComparedLists(S) == {<<>>} \cup {<<x>> : x \in S} \cup {<<x, y>> : x, y \in S}

\* The operations compared.
ComparedOperations ==
    LET fragments == {FragmentNew(1), FragmentNew(2)} IN
    {[kind |-> "Append", fragments |-> f] : f \in ComparedLists(fragments)}
    \cup {[kind |-> "Delete", updated_fragments |-> <<>>,
           deleted_fragment_ids |-> ids, predicate |-> "p"] :
             ids \in ComparedLists({1, 2})}
    \cup {[kind |-> "Rewrite", rewritten_indices |-> <<>>,
           frag_reuse_index |-> None,
           groups |-> <<[old_fragments |-> old,
                         new_fragments |-> <<FragmentNew(3)>>]>>] :
             old \in ComparedLists(fragments) \ {<<>>}}
    \cup {[kind |-> "ReserveFragments", num_fragments |-> n] : n \in 1..2}

InitEquality ==
    /\ TransactionsIdle
    /\ SchemaEngineIdle

\* a == b and b == a are evaluated: `last` holds the operations and the two
\* answers.
CompareOperations ==
    \E a \in ComparedOperations, b \in ComparedOperations :
        /\ last.status = "None"
        /\ last' = [operation |-> a, other |-> b, status |-> "Compared",
                    eq |-> OperationEq(a, b), eq_reversed |-> OperationEq(b, a)]
        /\ UNCHANGED <<manifest, indices, hist, pending, committed>>
        /\ UNCHANGED schema_vars

NextEquality == CompareOperations

SpecEquality == InitEquality /\ [][NextEquality]_vars

(* ------------------------------------------------------ explain_difference *)

\* The position of the first field of the list with the name
\* (fields.iter().position(|f| ef.name == f.name)), counted from 1; 0 when
\* there is none.
explain_position(fields, name) == PositionOf(fields, name)

\* windows(2).any(|w| w[0].1 > w[1].1) over the positions of the expected
\* fields that were found.
OutOfOrder(positions) ==
    \E i \in 1..(Len(positions) - 1) : positions[i] > positions[i + 1]

RECURSIVE explain_fields_difference(_, _, _, _)
RECURSIVE field_explain_differences(_, _, _, _)
RECURSIVE explain_each_field(_, _, _, _)

\* Field::explain_differences: the differences of name, type and nullability,
\* and the differences of the children under the path of the field.
field_explain_differences(self, expected, options, path) ==
    LET self_name == Append(path, self.name)
        children == explain_fields_difference(self.children, expected.children,
                                              options, self_name)
    IN (IF self.name # expected.name
        THEN <<[what |-> "expected name", path |-> self_name]>> ELSE <<>>)
       \o (IF self.logical_type # expected.logical_type
           THEN <<[what |-> "should have type", path |-> self_name]>> ELSE <<>>)
       \o (IF self.nullable # expected.nullable
           THEN <<[what |-> "should have nullable", path |-> self_name]>>
           ELSE <<>>)
       \o (IF children # <<>>
           THEN <<[what |-> "had mismatched children", path |-> self_name,
                   differences |-> children]>>
           ELSE <<>>)

\* The loop of explain_fields_difference over the expected fields that were
\* found: the differences of a field, if it has any, are pushed as one entry.
explain_each_field(fields, found, options, path) ==
    IF found = <<>> THEN <<>>
    ELSE LET field_diffs ==
                 field_explain_differences(
                     fields[explain_position(fields, Head(found).name)],
                     Head(found), options, path)
         IN (IF field_diffs # <<>>
             THEN <<[what |-> "field", differences |-> field_diffs]>>
             ELSE <<>>)
               \o explain_each_field(fields, Tail(found), options, path)

\* explain_fields_difference without the check of the order of the fields.
explain_fields_difference_unordered(fields, expected, options, path) ==
    LET field_names == {fields[i].name : i \in DOMAIN fields}
        expected_names == {expected[i].name : i \in DOMAIN expected}
        unexpected_fields == field_names \ expected_names
        missing_fields ==
            {expected[i].name : i \in {j \in DOMAIN expected :
                /\ expected[j].name \notin field_names
                /\ ~(options.allow_missing_if_nullable /\ expected[j].nullable)}}
        found == SelectSeq(expected,
                           LAMBDA ef : explain_position(fields, ef.name) # 0)
    IN (IF missing_fields # {} \/ unexpected_fields # {}
        THEN <<[what |-> "fields did not match", path |-> path,
                missing |-> missing_fields, unexpected |-> unexpected_fields]>>
        ELSE <<>>)
       \o explain_each_field(fields, found, options, path)

\* explain_fields_difference.
explain_fields_difference(fields, expected, options, path) ==
    LET field_names == {fields[i].name : i \in DOMAIN fields}
        expected_names == {expected[i].name : i \in DOMAIN expected}
        unexpected_fields == field_names \ expected_names
        missing_fields ==
            {expected[i].name : i \in {j \in DOMAIN expected :
                /\ expected[j].name \notin field_names
                /\ ~(options.allow_missing_if_nullable /\ expected[j].nullable)}}
        found == SelectSeq(expected,
                           LAMBDA ef : explain_position(fields, ef.name) # 0)
        positions == [i \in DOMAIN found |->
                         explain_position(fields, found[i].name)]
    IN (IF missing_fields # {} \/ unexpected_fields # {}
        THEN <<[what |-> "fields did not match", path |-> path,
                missing |-> missing_fields, unexpected |-> unexpected_fields]>>
        ELSE <<>>)
       \o (IF ~options.ignore_field_order /\ OutOfOrder(positions)
           THEN <<[what |-> "fields in different order", path |-> path]>>
           ELSE <<>>)
       \o explain_each_field(fields, found, options, path)

\* explain_metadata_difference.
explain_metadata_difference(metadata, expected) ==
    IF metadata # expected
    THEN Some([what |-> "metadata did not match"]) ELSE None

\* Schema::explain_difference: None, or the differences (joined with ", ").
explain_difference(self, expected, options) ==
    LET differences ==
            explain_fields_difference(self.fields, expected.fields, options, <<>>)
               \o (IF options.compare_metadata
                   THEN explain_metadata_difference(self.metadata,
                                                    expected.metadata)
                   ELSE <<>>)
    IN IF differences = <<>> THEN None ELSE Some(differences)

\* Schema::check_compatible.
check_compatible(self, expected, options) ==
    IF ~compare_with_options(self, expected, options)
    THEN [status |-> "SchemaMismatch",
          difference |->
              IF explain_difference(self, expected, options) = None
              THEN "unknown reason"
              ELSE explain_difference(self, expected, options)[1]]
    ELSE [status |-> "Ok"]

\* One call of check_compatible, with what compare_with_options and
\* explain_difference answer on the same schemas and options.
CallCheckCompatible ==
    \E expected \in InputSchemas, metadata \in {NoMetadata, SomeMetadata},
       options \in SchemaCompareOptions :
        /\ schema_call = NoSchemaCall
        /\ schema_call' =
              [fn |-> "check_compatible", self |-> cur_schema,
               expected |-> Schema(expected.fields, metadata),
               options |-> options,
               compared |-> compare_with_options(
                                cur_schema, Schema(expected.fields, metadata),
                                options),
               explained |-> explain_difference(
                                 cur_schema, Schema(expected.fields, metadata),
                                 options),
               result |-> check_compatible(
                              cur_schema, Schema(expected.fields, metadata),
                              options)]
        /\ UNCHANGED <<cur_schema, high_water, cur_projection>>
        /\ UNCHANGED transaction_vars

NextCompatible == CallCheckCompatible

SpecCompatible == InitSchema /\ [][NextCompatible]_vars

(* ------------------------------------------------------------ properties *)

\* A build_manifest call has returned, and it returned a manifest.
Called == last.status \notin {"None", "Conflict", "Compatible"}
Built == last.status = "Ok"

\* The fragments an operation brings, in the order it lists them.
RECURSIVE GroupFragments(_)
GroupFragments(groups) ==
    IF groups = <<>> THEN <<>>
    ELSE Head(groups).new_fragments \o GroupFragments(Tail(groups))

BroughtFragments(operation) ==
    CASE operation.kind \in {"Append", "Overwrite"} -> operation.fragments
      [] operation.kind = "Update" -> operation.new_fragments
      [] operation.kind = "Rewrite" -> GroupFragments(operation.groups)
      [] OTHER -> <<>>

\* The fragment of the manifest that holds the file: a file is written once,
\* so its path tells which fragment of the operation a listed fragment is.
HoldsFile(f, path) == \E k \in DOMAIN f.files : f.files[k].path = path
ListsFile(m, path) == \E i \in DOMAIN m.fragments : HoldsFile(m.fragments[i], path)
FragmentOfFile(m, path) ==
    m.fragments[CHOOSE i \in DOMAIN m.fragments : HoldsFile(m.fragments[i], path)]
TimesListed(m, path) ==
    Cardinality({i \in DOMAIN m.fragments : HoldsFile(m.fragments[i], path)})

RECURSIVE RowsOf(_)
RowsOf(fragments) ==
    IF fragments = <<>> THEN 0
    ELSE Head(fragments).physical_rows[1] + RowsOf(Tail(fragments))

Disjoint(r, s) == r[2] <= s[1] \/ s[2] <= r[1]

PriorStable ==
    /\ last.current_manifest # None
    /\ last.current_manifest[1].stable_row_ids

\* The row-id ranges of the operation's fragments as the manifest lists them.
AssignedRange(i) ==
    FragmentOfFile(last.manifest[1],
                   BroughtFragments(last.operation)[i].files[1].path).row_id_meta

\* The range a cursor starting at n gives the i-th fragment the operation
\* brings.
ExpectedRange(n, i) ==
    LET new == BroughtFragments(last.operation)
        lo == n + RowsOf(SubSeq(new, 1, i - 1))
    IN <<lo, lo + new[i].physical_rows[1]>>

\* C1. On a dataset with stable row ids, a manifest built by an operation
\* other than Overwrite gives the i-th fragment an Append or Update wrote the
\* range [n, n + physical_rows), n being the prior next_row_id plus the rows
\* of the fragments before it; the range overlaps no range handed out before;
\* every range handed out before ends at or below the prior next_row_id; and
\* the manifest's next_row_id is the prior one plus the rows just assigned
\* (the prior one for an operation that writes no such fragment).
RowIdContinuity ==
    (Built /\ PriorStable /\ last.operation.kind # "Overwrite") =>
        LET prior == last.current_manifest[1]
            new == IF last.operation.kind \in {"Append", "Update"}
                   THEN BroughtFragments(last.operation) ELSE <<>>
        IN /\ \A i \in DOMAIN new :
                /\ ListsFile(last.manifest[1], new[i].files[1].path)
                /\ AssignedRange(i) = ExpectedRange(prior.next_row_id, i)
                /\ \A r \in last.hist.row_ranges : Disjoint(r, AssignedRange(i))
                /\ \A j \in DOMAIN new :
                      i # j => Disjoint(AssignedRange(i), AssignedRange(j))
           /\ \A r \in last.hist.row_ranges : r[2] <= prior.next_row_id
           /\ last.manifest[1].next_row_id = prior.next_row_id + RowsOf(new)

\* An Append of two fragments was built on a dataset with stable row ids that
\* had handed out row ids before.
RowIdContinuityWitness ==
    /\ Built /\ PriorStable
    /\ last.operation.kind = "Append"
    /\ Len(last.operation.fragments) = 2
    /\ last.operation.fragments[1].physical_rows = Some(2)
    /\ last.hist.row_ranges # {}
    /\ last.current_manifest[1].next_row_id > 0

\* C2. In a manifest built by an operation other than Overwrite, every
\* fragment that arrived with id 0 has an id greater than every id that a
\* fragment had or that was reserved in an earlier manifest, and no two of
\* them have the same id.
FreshFragmentIds ==
    (Built /\ last.operation.kind # "Overwrite") =>
        LET new == BroughtFragments(last.operation)
            m == last.manifest[1]
            zero == {i \in DOMAIN new : new[i].id = 0}
        IN \A i \in zero :
              /\ ListsFile(m, new[i].files[1].path)
              /\ \A id \in last.hist.used_ids :
                    FragmentOfFile(m, new[i].files[1].path).id > id
              /\ \A j \in zero :
                    i # j => FragmentOfFile(m, new[i].files[1].path).id
                                # FragmentOfFile(m, new[j].files[1].path).id

\* An Append allocated an id after the fragment with the largest id had been
\* deleted.
FreshFragmentIdsWitness ==
    /\ Built
    /\ last.operation.kind = "Append"
    /\ last.operation.fragments # <<>>
    /\ last.hist.used_ids # {}
    /\ SetMax(last.hist.used_ids) \notin IdSet(last.current_manifest[1].fragments)
    /\ last.hist.reserved = {}

\* The ids a rewrite group's new fragments have in the manifest built.
ManifestIds(m, group) ==
    {FragmentOfFile(m, group.new_fragments[i].files[1].path).id :
        i \in DOMAIN group.new_fragments}

AllIn(group, B) == \A id \in IdSet(group.old_fragments) : id \in B
AnyIn(group, B) == \E id \in IdSet(group.old_fragments) : id \in B

\* The old fragments of every group are listed by the manifest the Rewrite is
\* applied to.
OldFragmentsListed ==
    \A i \in DOMAIN last.operation.groups :
        IdSet(last.operation.groups[i].old_fragments)
            \subseteq IdSet(ExistingFragments(last.current_manifest))

\* C3. After a Rewrite with stable row ids, for every index whose bitmap was
\* B: a group with some but not all of its old fragments in B makes
\* build_manifest fail; otherwise the new bitmap is B without the old ids of
\* the groups that were all in B and with the ids of those groups' new
\* fragments, the groups with no old fragment in B changing nothing.
RewriteBitmapLaw ==
    (Called /\ PriorStable /\ last.operation.kind = "Rewrite"
            /\ OldFragmentsListed) =>
        \A i \in DOMAIN last.current_indices :
            LET index == last.current_indices[i]
                groups == Range(last.operation.groups)
            IN index.fragment_bitmap # None =>
                LET B == index.fragment_bitmap[1]
                    covered == {g \in groups : AllIn(g, B)}
                IN IF \E g \in groups : AnyIn(g, B) /\ ~AllIn(g, B)
                   THEN last.status # "Ok" /\ last.manifest = None
                   ELSE Built =>
                        last.indices[i].fragment_bitmap =
                            Some((B \ UNION {IdSet(g.old_fragments) : g \in covered})
                                 \cup UNION {ManifestIds(last.manifest[1], g) :
                                                g \in covered})

\* The decision on the pending operation, and the one with the two operations
\* exchanged.
Resolved == last.status \in {"Conflict", "Compatible"}
Decided == last.status = "Conflict"
DecidedExchanged == conflicts_with(committed[1].operation, last.operation)

PairOf(a, b) ==
    \/ last.operation.kind = a /\ committed[1].operation.kind = b
    \/ last.operation.kind = b /\ committed[1].operation.kind = a

TouchedBy(operation) ==
    CASE operation.kind = "Delete" ->
           {id \in 4..8 :
               \/ \E i \in DOMAIN operation.deleted_fragment_ids :
                     operation.deleted_fragment_ids[i] = id
               \/ \E i \in DOMAIN operation.updated_fragments :
                     operation.updated_fragments[i].id = id}
      [] operation.kind = "Update" ->
           {id \in 4..8 :
               \/ \E i \in DOMAIN operation.removed_fragment_ids :
                     operation.removed_fragment_ids[i] = id
               \/ \E i \in DOMAIN operation.updated_fragments :
                     operation.updated_fragments[i].id = id}
      [] operation.kind = "Rewrite" ->
           {id \in 4..8 :
               \E i \in DOMAIN operation.groups :
                   \E j \in DOMAIN operation.groups[i].old_fragments :
                       operation.groups[i].old_fragments[j].id = id}

\* C5. A pending Delete, Update or Rewrite is compatible with a committed
\* Delete, Update or Rewrite exactly if the two name no fragment in common.
DisjointFragmentsCompatible ==
    (/\ Resolved
     /\ last.operation.kind \in {"Delete", "Update", "Rewrite"}
     /\ committed[1].operation.kind \in {"Delete", "Update", "Rewrite"})
        => (~Decided <=> TouchedBy(last.operation)
                             \cap TouchedBy(committed[1].operation) = {})

\* A pending Delete of fragment 6 that rewrites fragment 5 was found to
\* conflict with a committed Rewrite of fragments 4 and 5.
DisjointFragmentsWitness ==
    /\ Decided
    /\ last.operation.kind = "Delete"
    /\ TouchedBy(last.operation) = {5, 6}
    /\ last.operation.deleted_fragment_ids = <<6>>
    /\ committed[1].operation.kind = "Rewrite"
    /\ TouchedBy(committed[1].operation) = {4, 5}

\* The range of row ids a listed fragment has.
RangeOfFile(m, path) == FragmentOfFile(m, path).row_id_meta

\* C6. When both Appends are committed, in either order, the manifest lists
\* every fragment of both exactly once, no two listed fragments have the same
\* id, and with stable row ids the ranges of any two fragments of the two
\* transactions are disjoint.
BothAppendsKept ==
    (pending = {} /\ Len(committed) = 2) =>
        LET m == manifest[1]
            a == committed[1].operation.fragments
            b == committed[2].operation.fragments
        IN /\ \A i \in DOMAIN a : TimesListed(m, a[i].files[1].path) = 1
           /\ \A i \in DOMAIN b : TimesListed(m, b[i].files[1].path) = 1
           /\ \A i, j \in DOMAIN m.fragments :
                 i # j => m.fragments[i].id # m.fragments[j].id
           /\ m.stable_row_ids =>
                 \A i \in DOMAIN a, j \in DOMAIN b :
                     /\ RangeOfFile(m, a[i].files[1].path) # None
                     /\ RangeOfFile(m, b[j].files[1].path) # None
                     /\ Disjoint(RangeOfFile(m, a[i].files[1].path),
                                 RangeOfFile(m, b[j].files[1].path))

\* Both Appends are committed, the second transaction first, on a dataset
\* with stable row ids that listed fragments already.
BothAppendsKeptWitness ==
    /\ pending = {}
    /\ Len(committed) = 2
    /\ committed[1].uuid = 2
    /\ manifest[1].stable_row_ids
    /\ Len(manifest[1].fragments) = 1 + 2 * MaxNewFragments

\* C7, as the specification states it: an Overwrite of a dataset with stable
\* row ids gives its first fragment the range starting at 0, and the
\* manifest's next_row_id is the number of rows the Overwrite brings.
OverwriteRestartsRowIds ==
    (Built /\ PriorStable /\ last.operation.kind = "Overwrite") =>
        /\ last.manifest[1].next_row_id = RowsOf(last.operation.fragments)
        /\ last.operation.fragments # <<>> => AssignedRange(1)[1] = 0

\* C7, amended.  An Overwrite of a dataset with stable row ids continues at
\* the prior manifest's next_row_id: its i-th fragment gets the range that
\* starts at the prior next_row_id plus the rows of the fragments before it,
\* and the manifest's next_row_id is the prior one plus the rows the Overwrite
\* brings.  The ranges start at 0 when there is no prior manifest.
OverwriteContinuesRowIds ==
    (Built /\ last.operation.kind = "Overwrite"
           /\ last.manifest[1].stable_row_ids) =>
        LET start == IF last.current_manifest = None THEN 0
                     ELSE last.current_manifest[1].next_row_id
            new == last.operation.fragments
        IN /\ \A i \in DOMAIN new : AssignedRange(i) = ExpectedRange(start, i)
           /\ last.manifest[1].next_row_id = start + RowsOf(new)

\* An Overwrite with two fragments was built on a dataset with stable row ids
\* whose next_row_id was not 0.
OverwriteContinuesWitness ==
    /\ Built /\ PriorStable
    /\ last.operation.kind = "Overwrite"
    /\ Len(last.operation.fragments) = 2
    /\ last.current_manifest[1].next_row_id > 0

\* C8. In every manifest built, max_fragment_id is set and is at least the id
\* of every fragment listed.
MaxFragmentIdCovers ==
    \A m \in Range(manifest) \cup Range(last.manifest) :
        \A i \in DOMAIN m.fragments :
            /\ m.max_fragment_id # None
            /\ m.max_fragment_id[1] >= m.fragments[i].id

\* A Delete was built that removed the fragment with the largest id and left
\* others.
MaxFragmentIdWitness ==
    /\ Built
    /\ last.operation.kind = "Delete"
    /\ last.manifest[1].fragments # <<>>
    /\ last.manifest[1].max_fragment_id # None
    /\ last.manifest[1].max_fragment_id[1]
          > SetMax(IdSet(last.manifest[1].fragments))

\* The value the fragment-id cursor starts at.
CursorStart ==
    IF last.operation.kind = "Overwrite" \/ last.current_manifest = None THEN 0
    ELSE IF last.current_manifest[1].max_fragment_id = None THEN 0
    ELSE last.current_manifest[1].max_fragment_id[1] + 1

\* C9. In a manifest built, the i-th fragment the operation brings has the
\* id it arrived with when that was not 0, and else the cursor's start plus
\* the number of fragments before it that arrived with id 0.
FragmentIdCursor ==
    Built =>
        LET new == BroughtFragments(last.operation)
            m == last.manifest[1]
        IN \A i \in DOMAIN new :
              /\ ListsFile(m, new[i].files[1].path)
              /\ FragmentOfFile(m, new[i].files[1].path).id =
                    IF new[i].id # 0 THEN new[i].id
                    ELSE CursorStart
                         + Cardinality({j \in 1..(i - 1) : new[j].id = 0})

\* A Rewrite was built whose group brings a fragment with a reserved id and
\* then one with id 0.
FragmentIdCursorWitness ==
    /\ Built
    /\ last.operation.kind = "Rewrite"
    /\ \E i \in DOMAIN last.operation.groups :
          LET new == last.operation.groups[i].new_fragments
          IN Len(new) = 2 /\ new[1].id # 0 /\ new[2].id = 0

\* C10. A Rewrite naming an old fragment that the manifest it is applied to
\* does not list, in any position of any group, makes build_manifest fail: it
\* builds no manifest (a panic is counted as a failure here).
RewriteOfAbsentFragmentFails ==
    (Called /\ last.operation.kind = "Rewrite" /\ ~OldFragmentsListed) =>
        /\ last.status # "Ok"
        /\ last.manifest = None

(* ----------------------------------------- rewrite groups on the list *)

\* The positions of the list at which the ids occur as a contiguous run, in
\* the same order.
RunsOf(list, ids) ==
    {p \in 1..(Len(list) - Len(ids) + 1) :
        \A i \in DOMAIN ids : list[p + i - 1].id = ids[i]}

\* The number of fragments among the first n that arrived with id 0.
UnassignedBefore(new_fragments, n) ==
    Cardinality({i \in 1..n : new_fragments[i].id = 0})

\* The new fragments of a group with the ids they are listed under.
Arrived(new_fragments, cursor) ==
    [i \in DOMAIN new_fragments |->
        IF new_fragments[i].id = 0
        THEN [new_fragments[i] EXCEPT
                 !.id = cursor + UnassignedBefore(new_fragments, i - 1)]
        ELSE new_fragments[i]]

\* What one group is to make of the list: spliced at the run, else the old
\* fragments removed by id and the new ones appended.
GroupApplied(list, group, cursor) ==
    LET ids == [i \in DOMAIN group.old_fragments |-> group.old_fragments[i].id]
        runs == RunsOf(list, ids)
        new == Arrived(group.new_fragments, cursor)
    IN IF runs # {}
       THEN LET p == CHOOSE q \in runs : \A r \in runs : q <= r
            IN SubSeq(list, 1, p - 1) \o new
                   \o SubSeq(list, p + Len(ids), Len(list))
       ELSE SelectSeq(list, LAMBDA f : f.id \notin Range(ids)) \o new

RECURSIVE GroupsApplied(_, _, _)
GroupsApplied(list, groups, cursor) ==
    IF groups = <<>>
    THEN [status |-> "Ok", fragments |-> list, fragment_id |-> cursor]
    ELSE GroupsApplied(
             GroupApplied(list, Head(groups), cursor), Tail(groups),
             cursor + UnassignedBefore(Head(groups).new_fragments,
                                       Len(Head(groups).new_fragments)))

\* The call in flight is a Rewrite whose groups name, as old, only fragments
\* of the current list.
RewriteOfListed ==
    /\ last.operation.kind = "Rewrite"
    /\ last.current_manifest # None
    /\ \A g \in Range(last.operation.groups) :
           IdSet(g.old_fragments)
               \subseteq IdSet(ExistingFragments(last.current_manifest))

\* handle_rewrite_fragments on the inputs of the call in flight.
RewriteResult ==
    handle_rewrite_fragments(
        ExistingFragments(last.current_manifest), last.operation.groups,
        InitialFragmentId(last.operation, last.current_manifest))

\* C11: applying the rewrite groups to the fragment list splices the new
\* fragments in where the old ids are a contiguous run in order, else removes
\* the old fragments by id and appends the new ones; the other fragments keep
\* their order and the cursor advances by the number of new fragments that
\* arrived with id 0.
RewriteGroupsApplied ==
    RewriteOfListed =>
        RewriteResult =
            GroupsApplied(ExistingFragments(last.current_manifest),
                          last.operation.groups,
                          InitialFragmentId(last.operation,
                                            last.current_manifest))

\* The list is in ascending order of fragment id.
SortedById(fragments) ==
    \A i, j \in DOMAIN fragments : i < j => fragments[i].id <= fragments[j].id

\* C12: the fragment list of every manifest build_manifest returns is sorted
\* by fragment id in ascending order, whatever the operation and the prior
\* manifest, also when new fragments carry reserved ids or a rewrite appended
\* them at the end.
FragmentsSortedById ==
    Built => SortedById(last.manifest[1].fragments)

\* A Rewrite was built whose new fragment carries a reserved id and whose
\* list, as handle_rewrite_fragments left it, was not in order; and the list
\* of the manifest holds every fragment of it.
FragmentsSortedWitness ==
    /\ Built
    /\ last.operation.kind = "Rewrite"
    /\ \E g \in Range(last.operation.groups) :
           \E f \in Range(g.new_fragments) : f.id \in last.hist.reserved
    /\ RewriteResult.status = "Ok"
    /\ ~SortedById(RewriteResult.fragments)
    /\ Range(RewriteResult.fragments) = Range(last.manifest[1].fragments)

\* C13: after a Delete the fragment list is the prior list without the
\* fragments of deleted_fragment_ids, each remaining fragment replaced by the
\* updated fragment of its id, if there is one; nothing else changes and no
\* fragment is added.
DeleteFrame ==
    (Built /\ last.operation.kind = "Delete") =>
        LET prior == last.current_manifest[1].fragments
            upd == last.operation.updated_fragments
            kept == SelectSeq(prior, LAMBDA f :
                        f.id \notin Range(last.operation.deleted_fragment_ids))
        IN /\ Len(last.manifest[1].fragments) = Len(kept)
           /\ \A i \in DOMAIN kept :
                 last.manifest[1].fragments[i] =
                     IF \E u \in Range(upd) : u.id = kept[i].id
                     THEN CHOOSE u \in Range(upd) : u.id = kept[i].id
                     ELSE kept[i]

\* A Delete was built that removed one fragment and replaced another.
DeleteFrameWitness ==
    /\ Built
    /\ last.operation.kind = "Delete"
    /\ last.operation.deleted_fragment_ids # <<>>
    /\ last.operation.updated_fragments # <<>>
    /\ \E f \in Range(last.manifest[1].fragments) : f.deletion_file # None
    /\ Len(last.manifest[1].fragments)
           = Len(last.current_manifest[1].fragments) - 1

\* C17: ReserveFragments(num) returns a manifest whose max_fragment_id is the
\* prior one (0 if absent) plus num, with the prior fragment list and the
\* prior index list.
ReserveFragmentsFrame ==
    (Built /\ last.operation.kind = "ReserveFragments") =>
        LET prior == last.current_manifest[1]
            before == IF prior.max_fragment_id = None THEN 0
                      ELSE prior.max_fragment_id[1]
        IN /\ last.manifest[1].max_fragment_id
                  = Some(before + last.operation.num_fragments)
           /\ last.manifest[1].fragments = prior.fragments
           /\ last.indices = last.current_indices

\* Two fragment ids were reserved on a dataset that has fragments and an
\* index.
ReserveFragmentsWitness ==
    /\ Built
    /\ last.operation.kind = "ReserveFragments"
    /\ last.operation.num_fragments = 2
    /\ last.current_manifest[1].fragments # <<>>
    /\ last.current_indices # <<>>
    /\ last.manifest[1].max_fragment_id
           = Some(last.current_manifest[1].max_fragment_id[1] + 2)

(* ------------------------------------------------ columns and indices *)

\* The index is kept: it is a system index, or its fields are fields of the
\* schema and its bitmap names a fragment of the list.
KeptByFieldsAndBitmap(x, m) ==
    \/ is_system_index(x)
    \/ /\ x.fields \subseteq m.schema
       /\ x.fragment_bitmap # None
       /\ x.fragment_bitmap[1] \cap IdSet(m.fragments) # {}

\* The same, an index that stores no bitmap being judged by its fields.
KeptByFieldsAndStoredBitmap(x, m) ==
    \/ is_system_index(x)
    \/ /\ x.fields \subseteq m.schema
       /\ \/ x.fragment_bitmap = None
          \/ x.fragment_bitmap[1] \cap IdSet(m.fragments) # {}

IndicesPruned == Built /\ last.operation.kind \in {"Delete", "Merge", "Project"}

\* C14: after Delete, Merge or Project a non-system index is retained if and
\* only if every field of it is in the resulting schema and its fragment
\* bitmap holds the id of a fragment of the resulting list; system indices are
\* always retained.
IndexRetainedIffCovered ==
    IndicesPruned =>
        last.indices =
            SelectSeq(last.current_indices,
                      LAMBDA x : KeptByFieldsAndBitmap(x, last.manifest[1]))

\* C14, amended: as above, but a non-system index that stores no fragment
\* bitmap is retained whenever all its fields are in the resulting schema.
IndexRetainedIffCoveredOrNoBitmap ==
    IndicesPruned =>
        last.indices =
            SelectSeq(last.current_indices,
                      LAMBDA x : KeptByFieldsAndStoredBitmap(x, last.manifest[1]))

\* A Delete, Merge or Project dropped a non-system index and kept an index
\* that stores no bitmap and a system index whose field is gone or whose
\* bitmap names no fragment.
IndexRetainedWitness ==
    /\ IndicesPruned
    /\ \E x \in Range(last.indices) :
          /\ is_system_index(x)
          /\ ~KeptByFieldsAndBitmap([x EXCEPT !.name = "idx"], last.manifest[1])
    /\ \E x \in Range(last.indices) :
          ~is_system_index(x) /\ x.fragment_bitmap = None
    /\ \E x \in Range(last.current_indices) :
          ~is_system_index(x) /\ x \notin Range(last.indices)

\* The index of the prior list with the uuid.
PriorIndex(uuid) ==
    CHOOSE x \in Range(last.current_indices) : x.uuid = uuid

\* C15: after an Update, every index with a field in fields_modified has lost
\* the ids of the updated fragments from its fragment bitmap, the bitmap of
\* every other index is as it was, and with empty fields_modified every bitmap
\* is as it was.
UpdatePrunesBitmaps ==
    (Built /\ last.operation.kind = "Update") =>
        \A x \in Range(last.indices) :
            /\ \E y \in Range(last.current_indices) : y.uuid = x.uuid
            /\ x.fragment_bitmap =
                  IF /\ x.fields \cap last.operation.fields_modified # {}
                     /\ PriorIndex(x.uuid).fragment_bitmap # None
                  THEN Some(PriorIndex(x.uuid).fragment_bitmap[1]
                               \ IdSet(last.operation.updated_fragments))
                  ELSE PriorIndex(x.uuid).fragment_bitmap

\* An Update of field 0 of a fragment took it out of the bitmap of the index
\* over field 0 and left it in the bitmap of the index over field 1.
UpdatePrunesWitness ==
    /\ Built
    /\ last.operation.kind = "Update"
    /\ last.operation.fields_modified = {0}
    /\ \E x, y \in Range(last.indices) :
          /\ x.fields = {0} /\ y.fields = {1}
          /\ x.fragment_bitmap # None /\ y.fragment_bitmap # None
          /\ \E f \in Range(last.operation.updated_fragments) :
                /\ f.id \in PriorIndex(x.uuid).fragment_bitmap[1]
                /\ f.id \notin x.fragment_bitmap[1]
                /\ f.id \in y.fragment_bitmap[1]

\* The files of the fragments of a list.
FilesOf(fragments) ==
    UNION {Range(fragments[i].files) : i \in DOMAIN fragments}

\* C16: an Overwrite replaces everything: the fragments of the manifest are
\* the operation's fragments and none of the prior ones, the schema is the
\* operation's and the index list is empty.
OverwriteReplacesAll ==
    (Built /\ last.operation.kind = "Overwrite") =>
        /\ Len(last.manifest[1].fragments) = Len(last.operation.fragments)
        /\ \A i \in DOMAIN last.operation.fragments :
              last.manifest[1].fragments[i].files
                  = last.operation.fragments[i].files
        /\ FilesOf(last.manifest[1].fragments)
              \cap FilesOf(ExistingFragments(last.current_manifest)) = {}
        /\ last.manifest[1].schema = last.operation.schema
        /\ last.indices = <<>>

\* An Overwrite was built on a dataset with fragments, indices and another
\* schema.
OverwriteReplacesWitness ==
    /\ Built
    /\ last.operation.kind = "Overwrite"
    /\ last.current_manifest # None
    /\ last.current_manifest[1].fragments # <<>>
    /\ last.current_manifest[1].schema # last.operation.schema
    /\ last.current_indices # <<>>
    /\ last.manifest[1].fragments # <<>>
    /\ last.indices = <<>>

\* A DataReplacement was called on an existing dataset.
Replacing ==
    /\ last.operation.kind = "DataReplacement"
    /\ last.status # "None"
    /\ last.current_manifest # None

\* The fragment of the prior manifest with the id.
PriorFragment(id) ==
    CHOOSE f \in Range(last.current_manifest[1].fragments) : f.id = id

NewFilesDiffer ==
    \E r, t \in Range(last.operation.replacements) : r[2].fields # t[2].fields

NamesAbsentFragment ==
    \E r \in Range(last.operation.replacements) :
        r[1] \notin IdSet(last.current_manifest[1].fragments)

\* C18: on an existing dataset, build_manifest fails with InvalidInput and
\* returns no manifest for a DataReplacement whose new data files do not all
\* have the same fields, or one of whose fragment ids is not the id of a
\* fragment of the prior manifest.
DataReplacementPreconditions ==
    (Replacing /\ (NewFilesDiffer \/ NamesAbsentFragment)) =>
        /\ last.status = "InvalidInput"
        /\ last.manifest = None

\* A DataReplacement whose new files have different fields, on fragments the
\* dataset holds, failed with InvalidInput.
DataReplacementPreconditionsWitness ==
    /\ Replacing
    /\ last.status = "InvalidInput"
    /\ NewFilesDiffer
    /\ ~NamesAbsentFragment

\* The data files of the fragment that have the fields and file version of
\* the new file, and those that share a field with it.
Matching(frag, new_file) ==
    {k \in DOMAIN frag.files :
        /\ frag.files[k].fields = new_file.fields
        /\ frag.files[k].file_major_version = new_file.file_major_version
        /\ frag.files[k].file_minor_version = new_file.file_minor_version}

Overlapping(frag, new_file) ==
    {k \in DOMAIN frag.files :
        Range(frag.files[k].fields) \cap Range(new_file.fields) # {}}

\* What the replacement is to make of the fragment's files in the two cases.
FileReplaced(frag, new_file) ==
    [k \in DOMAIN frag.files |->
        IF k \in Matching(frag, new_file)
        THEN [frag.files[k] EXCEPT
                 !.path = new_file.path,
                 !.file_size_bytes = new_file.file_size_bytes]
        ELSE frag.files[k]]

\* The replacement applies and changes the fragment.
Applies(frag, new_file) ==
    \/ /\ Cardinality(Matching(frag, new_file)) = 1
       /\ FileReplaced(frag, new_file) # frag.files
    \/ Overlapping(frag, new_file) = {}

ProjectKeepsFragments ==
    (Built /\ last.operation.kind = "Project") =>
        LET prior == last.current_manifest[1].fragments
            now == last.manifest[1].fragments
        IN /\ Len(now) = Len(prior)
           /\ \A i \in DOMAIN prior :
                 now[i] = [prior[i] EXCEPT !.files =
                     SelectSeq(prior[i].files, LAMBDA file :
                         \E id \in Range(file.fields) :
                             id \in last.operation.schema)]
           /\ last.manifest[1].schema = last.operation.schema

\* A Project dropped a data file of a fragment and kept another.
ProjectKeepsWitness ==
    /\ Built
    /\ last.operation.kind = "Project"
    /\ \E i \in DOMAIN last.manifest[1].fragments :
          /\ last.manifest[1].fragments[i].files # <<>>
          /\ Len(last.manifest[1].fragments[i].files)
                < Len(last.current_manifest[1].fragments[i].files)

(* ------------------------------------------------ what the caller asks *)

\* The file versions of the data files the operation brings.
BroughtVersions ==
    UNION {{<<f.files[k].file_major_version, f.files[k].file_minor_version>> :
               k \in DOMAIN f.files} :
           f \in Range(BroughtFragments(last.operation))}

\* The caller requested a data storage version and the data files of the
\* fragments an Overwrite, or an Append to an existing dataset, brings are of
\* another one.
RequestedVersionDisagrees ==
    /\ Called
    /\ ~last.config.use_move_stable_row_ids
    /\ last.config.storage_format # None
    /\ \/ last.operation.kind = "Overwrite"
       \/ last.operation.kind = "Append" /\ last.current_manifest # None
    /\ \E v \in BroughtVersions : Some(v) # last.config.storage_format

\* C21: when the caller requested a data storage version and the file version
\* of the fragments' data files disagrees with it, build_manifest fails with
\* InvalidInput and returns no manifest.
StorageVersionChecked ==
    RequestedVersionDisagrees =>
        /\ last.status = "InvalidInput"
        /\ last.manifest = None

\* Stable row ids are requested on an existing dataset that does not use
\* them.
EnablesStableRowIds ==
    /\ Called
    /\ last.config.use_move_stable_row_ids
    /\ last.current_manifest # None
    /\ ~last.current_manifest[1].stable_row_ids

\* C22: build_manifest fails with NotSupported and returns no manifest,
\* whatever the operation, when stable row ids are requested on an existing
\* dataset whose manifest does not use them.
StableRowIdsNotEnabled ==
    EnablesStableRowIds =>
        /\ last.status = "NotSupported"
        /\ last.manifest = None

\* A Merge that would otherwise build a manifest was refused for requesting
\* stable row ids.
StableRowIdsNotEnabledWitness ==
    /\ EnablesStableRowIds
    /\ last.operation.kind = "Merge"
    /\ last.status = "NotSupported"
    /\ build_manifest(last.operation, last.current_manifest,
                      last.current_indices,
                      [last.config EXCEPT !.use_move_stable_row_ids = FALSE]
                     ).status = "Ok"

(* ---------------------------------------------- config-mutating operations *)

\* An operation that mutates the config: an UpdateConfig, or an Overwrite
\* that carries config_upsert_values.
MutatesConfig(operation) ==
    \/ operation.kind = "UpdateConfig"
    \/ operation.kind = "Overwrite" /\ operation.config_upsert_values # None

\* The config keys an operation upserts and deletes, read off its payload.
UpsertedKeys(operation) ==
    IF operation.kind = "UpdateConfig"
    THEN IF operation.upsert_values = None THEN {}
         ELSE DOMAIN operation.upsert_values[1]
    ELSE IF operation.config_upsert_values = None THEN {}
         ELSE DOMAIN operation.config_upsert_values[1]

DeletedKeys(operation) ==
    IF operation.kind = "UpdateConfig" /\ operation.delete_keys # None
    THEN {operation.delete_keys[1][i] : i \in DOMAIN operation.delete_keys[1]}
    ELSE {}

\* The field ids whose metadata an UpdateConfig sets.
FieldsWithMetadata(operation) ==
    IF operation.field_metadata = None THEN {}
    ELSE DOMAIN operation.field_metadata[1]

\* Some key upserted by one of the two is upserted or deleted by the other,
\* or both are UpdateConfig and both set the schema metadata or the metadata
\* of a common field.
ConfigClash(a, b) ==
    \/ UpsertedKeys(a) \cap (UpsertedKeys(b) \cup DeletedKeys(b)) # {}
    \/ UpsertedKeys(b) \cap (UpsertedKeys(a) \cup DeletedKeys(a)) # {}
    \/ /\ a.kind = "UpdateConfig"
       /\ b.kind = "UpdateConfig"
       /\ \/ a.schema_metadata # None /\ b.schema_metadata # None
          \/ FieldsWithMetadata(a) \cap FieldsWithMetadata(b) # {}

\* What upsert_key_conflict and modifies_same_metadata make of the pair.
ClassifiedAsConflict(self, other) ==
    upsert_key_conflict(self, other) \/ modifies_same_metadata(self, other)

\* C23: two config-mutating operations are classified as conflicting exactly
\* when some config key upserted by one is upserted or deleted by the other,
\* or both are UpdateConfig and both set schema_metadata or the metadata of a
\* common field id; the classification is the same with self and other
\* exchanged, and it is the decision taken on the pending operation whenever
\* one of the two is an UpdateConfig.
ConfigConflictClassified ==
    (/\ Resolved
     /\ MutatesConfig(last.operation)
     /\ MutatesConfig(committed[1].operation))
        => LET p == last.operation
               c == committed[1].operation
           IN /\ ClassifiedAsConflict(p, c) <=> ConfigClash(p, c)
              /\ ClassifiedAsConflict(c, p) <=> ClassifiedAsConflict(p, c)
              /\ "UpdateConfig" \in {p.kind, c.kind}
                    => (Decided <=> ConfigClash(p, c))

\* A pending UpdateConfig that upserts key "k" was found to conflict with a
\* committed UpdateConfig that deletes it and upserts nothing, the two setting
\* the metadata of different fields.
ConfigConflictWitness ==
    /\ Decided
    /\ last.operation.kind = "UpdateConfig"
    /\ committed[1].operation.kind = "UpdateConfig"
    /\ UpsertedKeys(last.operation) = {"k"}
    /\ UpsertedKeys(committed[1].operation) = {}
    /\ DeletedKeys(committed[1].operation) = {"k"}
    /\ last.operation.schema_metadata = None
    /\ FieldsWithMetadata(last.operation) = {0}
    /\ FieldsWithMetadata(committed[1].operation) = {1}

(* ------------------------------------------------------ field id assignment *)

\* The fields of the schema set_field_id was called on and of the schema it
\* left, in pre-order.
FieldsBefore == fields_pre_order(schema_call.self.fields)
FieldsAfter == fields_pre_order(schema_call.result.fields)

\* The positions, in pre-order, of the fields that had no id.
Unassigned == {i \in DOMAIN FieldsBefore : FieldsBefore[i].id = -1}

\* The ids the schema held before the call.
HeldBefore == {FieldsBefore[i].id : i \in DOMAIN FieldsBefore \ Unassigned}

\* One more than the largest of the ids the schema held and max_existing_id.
FirstNewId ==
    SetMax({-1} \cup HeldBefore \cup Range(schema_call.max_existing_id)) + 1

\* C24: set_field_id(max_existing) changes only the fields whose id is -1; it
\* gives them consecutive ids in pre-order, from
\* max(largest id of the schema, max_existing) + 1 on, so that every new id is
\* greater than max_existing and than every id the schema held; afterwards
\* all ids are unique and non-negative.
SetFieldIdAssignsInOrder ==
    schema_call.fn = "set_field_id" =>
        /\ Len(FieldsAfter) = Len(FieldsBefore)
        /\ \A i \in DOMAIN FieldsBefore :
              /\ FieldsAfter[i].name = FieldsBefore[i].name
              /\ FieldsAfter[i].logical_type = FieldsBefore[i].logical_type
              /\ FieldsAfter[i].nullable = FieldsBefore[i].nullable
              /\ Len(FieldsAfter[i].children) = Len(FieldsBefore[i].children)
              /\ i \notin Unassigned => FieldsAfter[i].id = FieldsBefore[i].id
              /\ i \in Unassigned =>
                    /\ FieldsAfter[i].id =
                          FirstNewId + Cardinality({j \in Unassigned : j < i})
                    /\ \A m \in Range(schema_call.max_existing_id) :
                          FieldsAfter[i].id > m
                    /\ \A id \in HeldBefore : FieldsAfter[i].id > id
        /\ \A i \in DOMAIN FieldsAfter :
              /\ FieldsAfter[i].id >= 0
              /\ \A j \in DOMAIN FieldsAfter :
                    FieldsAfter[i].id = FieldsAfter[j].id => i = j

\* set_field_id(Some(7)) was called on a schema whose largest id is 5, with a
\* new field below "b" and a new top-level field after it: they took 8 and 9.
SetFieldIdWitness ==
    /\ schema_call.fn = "set_field_id"
    /\ schema_call.max_existing_id = Some(7)
    /\ HeldBefore = 0..5
    /\ Cardinality(Unassigned) = 2
    /\ \E i \in Unassigned, j \in Unassigned :
          /\ FieldsBefore[i].name = "f3" /\ FieldsAfter[i].id = 8
          /\ FieldsBefore[j].name = "d" /\ FieldsAfter[j].id = 9

(* ------------------------------------------------------ projection by name *)

\* The fields of a list and below it, each as the path of names that leads to
\* it and its id.
RECURSIVE PathIds(_, _)
PathIds(fields, prefix) ==
    UNION {{<<Append(prefix, fields[i].name), fields[i].id>>}
               \cup PathIds(fields[i].children, Append(prefix, fields[i].name)) :
           i \in DOMAIN fields}

\* project was called with columns that all exist in the schema.
ProjectedExisting ==
    /\ schema_call.fn = "project"
    /\ \A i \in DOMAIN schema_call.columns :
          \E pi \in PathIds(schema_call.self.fields, <<>>) :
              pi[1] = schema_call.columns[i]

\* C26: for columns C that exist, project(C) succeeds and holds the field of
\* every column of C with its id, every selected field below all of its
\* ancestors, the columns of one top-level name below a single top-level
\* field, and no field that is neither an ancestor of a column of C nor in
\* the sub-tree of one.
ProjectionClosure ==
    ProjectedExisting =>
        /\ schema_call.result.status = "Ok"
        /\ LET projected == schema_call.result.schema[1].fields
               selected == {pi \in PathIds(schema_call.self.fields, <<>>) :
                               \E i \in DOMAIN schema_call.columns :
                                   \/ IsPrefix(pi[1], schema_call.columns[i])
                                   \/ IsPrefix(schema_call.columns[i], pi[1])}
           IN /\ PathIds(projected, <<>>) = selected
              /\ Cardinality(selected) = Len(fields_pre_order(projected))
              /\ \A i \in DOMAIN projected, j \in DOMAIN projected :
                    projected[i].name = projected[j].name => i = j

\* project(["b.f2", "b.f1.g", "c"]) on the whole schema gave one "b" with the
\* children f2 and f1, and "c".
ProjectionClosureWitness ==
    /\ ProjectedExisting
    /\ schema_call.columns = <<<<"b", "f2">>, <<"b", "f1", "g">>, <<"c">>>>
    /\ Len(schema_call.self.fields) = 3
    /\ Len(schema_call.result.schema[1].fields) = 2
    /\ schema_call.result.schema[1].fields[1] =
          FieldB(<<FieldF2, FieldF1>>)
    /\ schema_call.result.schema[1].fields[2] = FieldC

(* ------------------------------------------------------------------- merge *)

\* The top-level names of a schema.
TopLevelNames(s) == {s.fields[i].name : i \in DOMAIN s.fields}

\* merge was called on two schemas of disjoint top-level names.
MergedDisjoint ==
    /\ schema_call.fn = "merge"
    /\ TopLevelNames(schema_call.self) \cap TopLevelNames(schema_call.other) = {}

\* C28: for schemas A and B of disjoint top-level names, A.merge(B).merge(B)
\* equals A.merge(B).
MergeIdempotent ==
    MergedDisjoint =>
        SchemaEq(merge(schema_call.result, schema_call.other), schema_call.result)

\* {c} was merged with {b: {f2, f1: {g}}, a}: the merged schema holds "c" with
\* its id and "b", "a" and the fields below them without ids.
MergeIdempotentWitness ==
    /\ MergedDisjoint
    /\ schema_call.self.fields = <<FieldC>>
    /\ schema_call.other.fields = <<FieldB(<<FieldF2, FieldF1>>), FieldA>>
    /\ field_ids(schema_call.result) = <<5, -1, -1, -1, -1, -1>>
    /\ Len(schema_call.result.fields) = 3

(* ---------------------------------------------------- compare_with_options *)

\* The field a path leads to.
RECURSIVE FieldAt(_, _)
FieldAt(fields, path) ==
    LET f == fields[PositionOf(fields, Head(path))] IN
    IF Len(path) = 1 THEN f ELSE FieldAt(f.children, Tail(path))

PlaceOf(paths, p) == CHOOSE i \in DOMAIN paths : paths[i] = p

Siblings(p, q) ==
    /\ Len(p) = Len(q)
    /\ SubSeq(p, 1, Len(p) - 1) = SubSeq(q, 1, Len(q) - 1)

\* The paths of self and of expected in the call of compare_with_options.
SelfPaths == PathList(schema_call.self.fields, <<>>)
ExpectedPaths == PathList(schema_call.expected.fields, <<>>)

\* The expected fields self has no field for, though it has their parent.
MissingFromSelf ==
    {p \in Range(ExpectedPaths) :
        /\ p \notin Range(SelfPaths)
        /\ Len(p) > 1 => SubSeq(p, 1, Len(p) - 1) \in Range(SelfPaths)}

\* C30: compare_with_options is false, whatever the options, when self has a
\* field whose name expected has not; when it is true, every expected field
\* missing from self is nullable and allow_missing_if_nullable is set, and,
\* unless ignore_field_order is set, the fields both have are in the same
\* relative order.
CompareTolerance ==
    schema_call.fn = "compare_with_options" =>
        /\ ~(Range(SelfPaths) \subseteq Range(ExpectedPaths))
              => ~schema_call.result
        /\ schema_call.result =>
              \A p \in MissingFromSelf :
                  /\ schema_call.options.allow_missing_if_nullable
                  /\ FieldAt(schema_call.expected.fields, p).nullable
        /\ (schema_call.result /\ ~schema_call.options.ignore_field_order) =>
              \A p \in Range(SelfPaths) \cap Range(ExpectedPaths),
                 q \in Range(SelfPaths) \cap Range(ExpectedPaths) :
                  (Siblings(p, q) /\ PlaceOf(SelfPaths, p) < PlaceOf(SelfPaths, q))
                      => PlaceOf(ExpectedPaths, p) < PlaceOf(ExpectedPaths, q)

\* {a, b: {f2}} was found to match {a, b: {f1?, f2}, c?} with
\* allow_missing_if_nullable set and the order of fields checked.
CompareToleranceWitness ==
    /\ schema_call.fn = "compare_with_options"
    /\ schema_call.result
    /\ schema_call.options.allow_missing_if_nullable
    /\ ~schema_call.options.ignore_field_order
    /\ schema_call.self.fields = <<FieldA, FieldB(<<FieldF2>>)>>
    /\ schema_call.expected.fields = <<FieldA, FieldB(<<FieldF1, FieldF2>>), FieldC>>
    /\ MissingFromSelf = {<<"b", "f1">>, <<"c">>}

(* ------------------------------------------------------- ids never reused *)

\* The ids the fields of the current schema hold.
HeldIds == Range(field_ids(cur_schema))

\* C25: along any sequence of columns dropped and columns added by merge and
\* set_field_id with the high-water mark, every id is assigned once: no id
\* given to a new field was ever held by a field before, dropped or not, and
\* no two fields hold the same id.
FieldIdsNeverReused ==
    /\ schema_call.added \cap schema_call.assigned_before = {}
    /\ Cardinality(HeldIds) = Len(field_ids(cur_schema))
    /\ \A id \in schema_call.assigned : id <= high_water

\* Columns were added after the field of the largest id had been dropped: the
\* new fields took ids above the dropped one.
FieldIdsNeverReusedWitness ==
    /\ schema_call.fn = "add_columns"
    /\ schema_call.added # {}
    /\ \E dropped \in schema_call.assigned_before \ HeldIds :
          /\ \A id \in HeldIds \ schema_call.added : id < dropped
          /\ \A id \in schema_call.added : id > dropped

(* ----------------------------------------------- projection within its base *)

\* C27: after any sequence of operations on a Projection that started empty
\* or full, every id of its field_ids is the id of a field of the base
\* schema.
ProjectionWithinBase ==
    cur_projection # None =>
        cur_projection[1].field_ids
            \subseteq Range(field_ids(cur_projection[1].base))

(* ------------------------------------------------------------------ C31 *)

\* The Arrow schema of the import, the paths of its fields in pre-order, and
\* the paths of the fields marked unenforced primary key.
ImportedFields == schema_call.arrow_schema.fields
ImportedPaths == PathList(ImportedFields, <<>>)
MarkedPaths == SelectSeq(ImportedPaths, LAMBDA p : FieldAt(ImportedFields, p).primary_key)

\* The three rules for a marked field: it is a leaf; neither it nor any
\* ancestor is nullable; no ancestor is a list or a large list.
IsLeafRule(p) == FieldAt(ImportedFields, p).children = <<>>

NonNullableRule(p) ==
    \A n \in 1..Len(p) : ~FieldAt(ImportedFields, SubSeq(p, 1, n)).nullable

NoListAncestorRule(p) ==
    \A n \in 1..(Len(p) - 1) :
        FieldAt(ImportedFields, SubSeq(p, 1, n)).data_type \notin {"list", "large_list"}

SatisfiesRules(p) == IsLeafRule(p) /\ NonNullableRule(p) /\ NoListAncestorRule(p)

\* C31: an import from Arrow fails if some field marked unenforced primary
\* key is not a leaf, or is nullable or has a nullable ancestor, or has a
\* list or large-list ancestor; when every marked field satisfies the three
\* rules the import succeeds, and unenforced_primary_key() of the schema is
\* exactly the marked fields, in pre-order.
PrimaryKeyValidated ==
    schema_call.fn = "try_from" =>
        /\ (\E i \in DOMAIN MarkedPaths : ~SatisfiesRules(MarkedPaths[i]))
              => schema_call.result.status = "Err"
        /\ (\A i \in DOMAIN MarkedPaths : SatisfiesRules(MarkedPaths[i]))
              => /\ schema_call.result.status = "Ok"
                 /\ LET pk == unenforced_primary_key(schema_call.result.schema[1])
                        imported == fields_pre_order(schema_call.result.schema[1].fields)
                    IN /\ Len(pk) = Len(MarkedPaths)
                       /\ \A i \in DOMAIN pk :
                             /\ pk[i].name = MarkedPaths[i][Len(MarkedPaths[i])]
                             /\ pk[i] = imported[PlaceOf(ImportedPaths, MarkedPaths[i])]

\* An import with two marked fields, one of them nested, that succeeds.
PrimaryKeyValidatedWitness ==
    /\ schema_call.fn = "try_from"
    /\ schema_call.result.status = "Ok"
    /\ Len(MarkedPaths) = 2
    /\ \E i \in DOMAIN MarkedPaths : Len(MarkedPaths[i]) = 3

(* ------------------------------------------------------------------ C32 *)

\* C32: UpdateMemWalState changes only the index list: the manifest
\* build_manifest returns for it has the fragment list of the prior manifest,
\* as it has for CreateIndex, ReserveFragments and UpdateConfig.
MemWalStateKeepsFragments ==
    (/\ last.status = "Ok"
     /\ last.current_manifest # None
     /\ last.operation.kind \in {"UpdateMemWalState", "CreateIndex",
                                 "ReserveFragments", "UpdateConfig"})
        => last.manifest[1].fragments = last.current_manifest[1].fragments

(* ------------------------------------------------------------ C33, C34 *)

\* The ids of the fragments the operation took out of the fragment list.
RemovedFragmentIds ==
    IdSet(ExistingFragments(last.current_manifest))
        \ IdSet(last.manifest[1].fragments)

\* The ids of the fragments the operation put in the fragment list.
AddedFragmentIds ==
    IdSet(last.manifest[1].fragments)
        \ IdSet(ExistingFragments(last.current_manifest))

\* C33: after a Rewrite that build_manifest accepts, with stable row ids or
\* without, no index's fragment bitmap holds the id of a fragment the Rewrite
\* removed from the fragment list.
RewriteBitmapsDropRemoved ==
    (Built /\ last.operation.kind = "Rewrite") =>
        \A i \in DOMAIN last.indices :
            last.indices[i].fragment_bitmap # None =>
                last.indices[i].fragment_bitmap[1] \cap RemovedFragmentIds = {}

\* C34: after a Rewrite with stable row ids, every id the rewrite groups
\* added to an index's fragment bitmap (every id of the new bitmap that is
\* not an id of the old bitmap the Rewrite left in the list) is the id under
\* which a new fragment of the groups is listed by the resulting manifest.
RewriteBitmapsNameNewFragments ==
    (Built /\ PriorStable /\ last.operation.kind = "Rewrite") =>
        \A i \in DOMAIN last.indices :
            last.indices[i].fragment_bitmap # None =>
                LET B == last.current_indices[i].fragment_bitmap[1]
                    added == last.indices[i].fragment_bitmap[1]
                                \ (B \ RemovedFragmentIds)
                IN added \subseteq AddedFragmentIds

(* ------------------------------------------------------------------ C35 *)

\* How many fragments of the list have the id.
TimesInList(fragments, id) ==
    Cardinality({i \in DOMAIN fragments : fragments[i].id = id})

\* C35: after a DataReplacement that build_manifest accepts, the fragment
\* list holds exactly the fragment ids of the prior manifest, each once, and
\* every fragment no replacement names is as it was.
DataReplacementKeepsFragmentIds ==
    (Built /\ last.operation.kind = "DataReplacement") =>
        LET before == ExistingFragments(last.current_manifest)
            after == last.manifest[1].fragments
            named == {last.operation.replacements[i][1] :
                         i \in DOMAIN last.operation.replacements}
        IN /\ IdSet(after) = IdSet(before)
           /\ \A id \in IdSet(after) : TimesInList(after, id) = 1
           /\ \A i \in DOMAIN before :
                 before[i].id \notin named => before[i] \in Range(after)

(* ------------------------------------------------------------------ C39 *)

\* Some fragment of the operation has no data file with some field of the
\* operation's schema.
LacksColumn(operation) ==
    \E i \in DOMAIN operation.fragments : \E field \in operation.schema :
        \A k \in DOMAIN operation.fragments[i].files :
            field \notin Range(operation.fragments[i].files[k].fields)

\* C39: validate_operation treats every Overwrite alike, whatever its
\* config_upsert_values: with no manifest or with one, the Overwrite is
\* rejected with InvalidInput exactly when some fragment of the operation
\* lacks a data-file column for some field of the operation's schema, and is
\* accepted otherwise.
OverwriteValidatedAlike ==
    (last.status # "None" /\ last.operation.kind = "Overwrite") =>
        /\ last.status \in {"Ok", "InvalidInput"}
        /\ last.status = "InvalidInput" <=> LacksColumn(last.operation)

(* ------------------------------------------------------------------ C40 *)

\* C40: with no current manifest (the dataset does not exist yet)
\* build_manifest succeeds only for an Overwrite: for every other operation
\* it returns an error and no manifest.
NoManifestOnlyOverwrite ==
    (/\ Called
     /\ last.current_manifest = None
     /\ last.operation.kind # "Overwrite")
        => last.status # "Ok" /\ last.manifest = None

(* ------------------------------------------------------------------ C36 *)

\* C36: a transaction converted to its protobuf message and back is equal to
\* the transaction written; in particular an Overwrite keeps its
\* config_upsert_values.
TransactionRoundTrip ==
    \A i \in DOMAIN committed : committed[i].read = committed[i].written

(* ------------------------------------------------------------------ C37 *)

\* Two lists hold the same elements with the same multiplicities.
TimesIn(s, x) == Cardinality({i \in DOMAIN s : s[i] = x})
SameElements(s, t) ==
    \A x \in Range(s) \cup Range(t) : TimesIn(s, x) = TimesIn(t, x)

\* Two rewrite groups, and two lists of rewrite groups, that differ in the
\* order of their elements only.
SameGroup(g, h) ==
    /\ SameElements(g.old_fragments, h.old_fragments)
    /\ SameElements(g.new_fragments, h.new_fragments)

SameGroups(s, t) ==
    /\ Len(s) = Len(t)
    /\ \A g \in Range(s) \cup Range(t) :
          Cardinality({i \in DOMAIN s : SameGroup(s[i], g)})
              = Cardinality({i \in DOMAIN t : SameGroup(t[i], g)})

\* Two operations of one variant that differ in the order of their lists only.
SameUpToOrder(a, b) ==
    CASE a.kind = "Append" -> SameElements(a.fragments, b.fragments)
      [] a.kind = "Delete" ->
           /\ SameElements(a.updated_fragments, b.updated_fragments)
           /\ SameElements(a.deleted_fragment_ids, b.deleted_fragment_ids)
           /\ a.predicate = b.predicate
      [] a.kind = "Rewrite" ->
           /\ SameGroups(a.groups, b.groups)
           /\ SameElements(a.rewritten_indices, b.rewritten_indices)
           /\ a.frag_reuse_index = b.frag_reuse_index
      [] a.kind = "ReserveFragments" -> a.num_fragments = b.num_fragments

\* C37: equality of operations is symmetric and ignores only the order of
\* list elements: a == b exactly when b == a, and two operations of one
\* variant are equal exactly when their lists hold the same elements with
\* the same multiplicities.
OperationEqualitySymmetric ==
    last.status = "Compared" =>
        /\ last.eq <=> last.eq_reversed
        /\ last.operation.kind = last.other.kind
              => (last.eq <=> SameUpToOrder(last.operation, last.other))

(* ------------------------------------------------------------------ C38 *)

\* C38: compare_with_options and explain_difference agree on every pair of
\* schemas and every option set: compare_with_options is false exactly when
\* explain_difference gives a description, so check_compatible never reports
\* 'unknown reason'.
CompareAgreesWithExplain ==
    schema_call.fn = "check_compatible" =>
        /\ ~schema_call.compared <=> schema_call.explained # None
        /\ schema_call.result.status = "SchemaMismatch"
              => schema_call.result.difference # "unknown reason"

\* Two schemas whose only difference is the order of nested fields were
\* compared with the order taken into account: compare_with_options said no
\* and explain_difference described the order.
CompareAgreesWithExplainWitness ==
    /\ schema_call.fn = "check_compatible"
    /\ ~schema_call.options.ignore_field_order
    /\ ~schema_call.compared
    /\ schema_call.result.status = "SchemaMismatch"
    /\ Len(schema_call.explained[1]) = 1
    /\ schema_call.explained[1][1].what = "field"
    /\ LET d == schema_call.explained[1][1].differences
       IN /\ Len(d) = 1
          /\ d[1].what = "had mismatched children"
          /\ Len(d[1].differences) = 1
          /\ d[1].differences[1].what = "fields in different order"
====
